---- MODULE Spec2Model ----
(***************************************************************************)
(* HazLabel backend: the GHS compliance validation engine                  *)
(* (backend/validation.py) and the SDS parsing pipeline that applies it    *)
(* (backend/parser.py).                                                    *)
(*                                                                         *)
(* Statements, signal words and issue messages are strings; the string     *)
(* operations of the code (split, strip, upper, lower, re.match, the `in`  *)
(* substring test, difflib's ratio) are computed character by character.   *)
(***************************************************************************)
EXTENDS Integers, Sequences, FiniteSets, TLC

\* ------------------------------------------------------------------------
\* String primitives (Python str methods used by validation.py)
\* ------------------------------------------------------------------------

LowerLetters == "abcdefghijklmnopqrstuvwxyz"

UpperLetters == "ABCDEFGHIJKLMNOPQRSTUVWXYZ"

Digits == "0123456789"

CharAt(s, i) == SubSeq(s, i, i)

CharsOf(s) == { CharAt(s, i) : i \in 1..Len(s) }

\* str.upper / str.lower on one character (ASCII letters; others unchanged)
UpperMap == [c \in CharsOf(LowerLetters) |->
               CharAt(UpperLetters, CHOOSE i \in 1..26 : CharAt(LowerLetters, i) = c)]

LowerMap == [c \in CharsOf(UpperLetters) |->
               CharAt(LowerLetters, CHOOSE i \in 1..26 : CharAt(UpperLetters, i) = c)]

LowerCaseChars == CharsOf(LowerLetters)

UpperCaseChars == CharsOf(UpperLetters)

UpperChar(c) == IF c \in LowerCaseChars THEN UpperMap[c] ELSE c

LowerChar(c) == IF c \in UpperCaseChars THEN LowerMap[c] ELSE c

RECURSIVE StrUpper(_)
StrUpper(s) == IF s = "" THEN "" ELSE UpperChar(Head(s)) \o StrUpper(Tail(s))

RECURSIVE StrLower(_)
StrLower(s) == IF s = "" THEN "" ELSE LowerChar(Head(s)) \o StrLower(Tail(s))

\* the characters str.strip() removes
IsSpace(c) == c \in {" ", "\t", "\n", "\r", "\f"}

RECURSIVE LStrip(_)
LStrip(s) == IF s # "" /\ IsSpace(Head(s)) THEN LStrip(Tail(s)) ELSE s

RECURSIVE RStrip(_)
RStrip(s) ==
    IF s # "" /\ IsSpace(CharAt(s, Len(s)))
    THEN RStrip(SubSeq(s, 1, Len(s) - 1))
    ELSE s

StrStrip(s) == LStrip(RStrip(s))

DigitChars == CharsOf(Digits)

\* \d
IsDigit(c) == c \in DigitChars

\* `sub in s`
Contains(s, sub) ==
    \E i \in 1..(Len(s) - Len(sub) + 1) : SubSeq(s, i, i + Len(sub) - 1) = sub

\* index of the first occurrence of the one-character string c in s, 0 if none
FindChar(s, c) ==
    IF \E i \in 1..Len(s) : CharAt(s, i) = c
    THEN CHOOSE i \in 1..Len(s) :
            /\ CharAt(s, i) = c
            /\ \A j \in 1..(i - 1) : CharAt(s, j) # c
    ELSE 0

\* stmt.split(":", 1): one part when there is no colon, else two
SplitColon(stmt) ==
    LET k == FindChar(stmt, ":")
    IN  IF k = 0 THEN << stmt >>
        ELSE << SubSeq(stmt, 1, k - 1), SubSeq(stmt, k + 1, Len(stmt)) >>

\* ------------------------------------------------------------------------
\* difflib.SequenceMatcher(None, a, b).ratio()
\* (no junk; both texts are shorter than the 200 characters at which
\*  difflib's autojunk heuristic starts to drop popular characters)
\* ------------------------------------------------------------------------

\* length of the common run of a[i..ahi] and b[j..bhi] (1-based, inclusive)
RECURSIVE RunLen(_, _, _, _, _, _)
RunLen(a, b, i, j, ahi, bhi) ==
    IF i > ahi \/ j > bhi \/ CharAt(a, i) # CharAt(b, j) THEN 0
    ELSE 1 + RunLen(a, b, i + 1, j + 1, ahi, bhi)

\* find_longest_match(alo, ahi, blo, bhi): the longest matching block; of the
\* longest, the one starting earliest in a, and of those earliest in b
FindLongestMatch(a, b, alo, ahi, blo, bhi) ==
    LET Pairs == (alo..ahi) \X (blo..bhi)
        size(p) == RunLen(a, b, p[1], p[2], ahi, bhi)
        Sizes == { size(p) : p \in Pairs } \cup {0}
        best == CHOOSE k \in Sizes : \A m \in Sizes : m <= k
    IN  IF best = 0 THEN << alo, blo, 0 >>
        ELSE LET Cands == { p \in Pairs : size(p) = best }
                 i == CHOOSE i \in alo..ahi :
                         /\ \E p \in Cands : p[1] = i
                         /\ \A p \in Cands : p[1] >= i
                 j == CHOOSE j \in blo..bhi :
                         /\ << i, j >> \in Cands
                         /\ \A p \in Cands : p[1] = i => p[2] >= j
             IN  << i, j, best >>

\* get_matching_blocks: total size of the blocks found by recursing to the
\* left and to the right of each longest match m = (i, j, k)
RECURSIVE MatchedChars(_, _, _, _, _, _)
BlocksAround(a, b, alo, ahi, blo, bhi, m) ==
    IF m[3] = 0 THEN 0
    ELSE m[3] + MatchedChars(a, b, alo, m[1] - 1, blo, m[2] - 1)
              + MatchedChars(a, b, m[1] + m[3], ahi, m[2] + m[3], bhi)

MatchedChars(a, b, alo, ahi, blo, bhi) ==
    IF alo > ahi \/ blo > bhi THEN 0
    ELSE BlocksAround(a, b, alo, ahi, blo, bhi,
                      FindLongestMatch(a, b, alo, ahi, blo, bhi))

\* ratio() = 2.0 * matches / (len(a) + len(b)), 1.0 when both are empty;
\* kept exact as the pair <<2 * matches, len(a) + len(b)>>
Ratio(a, b) ==
    IF Len(a) + Len(b) = 0 THEN << 1, 1 >>
    ELSE << 2 * MatchedChars(a, b, 1, Len(a), 1, Len(b)), Len(a) + Len(b) >>

\* ratio < 0.9, i.e. 10 * num < 9 * den
RatioBelowThreshold(r) == 10 * r[1] < 9 * r[2]

\* ------------------------------------------------------------------------
\* Code Registry (validation.py, verbatim)
\* ------------------------------------------------------------------------

\* GHS_H_CODES: hazard code -> official statement text (UN GHS Rev 11)
GHS_H_CODES ==
       "H200" :> "Unstable explosive"
    @@ "H201" :> "Explosive; mass explosion hazard"
    @@ "H202" :> "Explosive; severe projection hazard"
    @@ "H203" :> "Explosive; fire, blast or projection hazard"
    @@ "H204" :> "Fire or projection hazard"
    @@ "H205" :> "May mass explode in fire"
    @@ "H220" :> "Extremely flammable gas"
    @@ "H221" :> "Flammable gas"
    @@ "H222" :> "Extremely flammable aerosol"
    @@ "H223" :> "Flammable aerosol"
    @@ "H224" :> "Extremely flammable liquid and vapor"
    @@ "H225" :> "Highly flammable liquid and vapor"
    @@ "H226" :> "Flammable liquid and vapor"
    @@ "H227" :> "Combustible liquid"
    @@ "H228" :> "Flammable solid"
    @@ "H229" :> "Pressurized container: may burst if heated"
    @@ "H230" :> "May react explosively even in the absence of air"
    @@ "H231" :> "May react explosively even in the absence of air at elevated pressure and/or temperature"
    @@ "H240" :> "Heating may cause an explosion"
    @@ "H241" :> "Heating may cause a fire or explosion"
    @@ "H242" :> "Heating may cause a fire"
    @@ "H250" :> "Catches fire spontaneously if exposed to air"
    @@ "H251" :> "Self-heating; may catch fire"
    @@ "H252" :> "Self-heating in large quantities; may catch fire"
    @@ "H260" :> "In contact with water releases flammable gases which may ignite spontaneously"
    @@ "H261" :> "In contact with water releases flammable gas"
    @@ "H270" :> "May cause or intensify fire; oxidizer"
    @@ "H271" :> "May cause fire or explosion; strong oxidizer"
    @@ "H272" :> "May intensify fire; oxidizer"
    @@ "H280" :> "Contains gas under pressure; may explode if heated"
    @@ "H281" :> "Contains refrigerated gas; may cause cryogenic burns or injury"
    @@ "H290" :> "May be corrosive to metals"
    @@ "H300" :> "Fatal if swallowed"
    @@ "H301" :> "Toxic if swallowed"
    @@ "H302" :> "Harmful if swallowed"
    @@ "H303" :> "May be harmful if swallowed"
    @@ "H304" :> "May be fatal if swallowed and enters airways"
    @@ "H305" :> "May be harmful if swallowed and enters airways"
    @@ "H310" :> "Fatal in contact with skin"
    @@ "H311" :> "Toxic in contact with skin"
    @@ "H312" :> "Harmful in contact with skin"
    @@ "H313" :> "May be harmful in contact with skin"
    @@ "H314" :> "Causes severe skin burns and eye damage"
    @@ "H315" :> "Causes skin irritation"
    @@ "H316" :> "Causes mild skin irritation"
    @@ "H317" :> "May cause an allergic skin reaction"
    @@ "H318" :> "Causes serious eye damage"
    @@ "H319" :> "Causes serious eye irritation"
    @@ "H320" :> "Causes eye irritation"
    @@ "H330" :> "Fatal if inhaled"
    @@ "H331" :> "Toxic if inhaled"
    @@ "H332" :> "Harmful if inhaled"
    @@ "H333" :> "May be harmful if inhaled"
    @@ "H334" :> "May cause allergy or asthma symptoms or breathing difficulties if inhaled"
    @@ "H335" :> "May cause respiratory irritation"
    @@ "H336" :> "May cause drowsiness or dizziness"
    @@ "H340" :> "May cause genetic defects"
    @@ "H341" :> "Suspected of causing genetic defects"
    @@ "H350" :> "May cause cancer"
    @@ "H351" :> "Suspected of causing cancer"
    @@ "H360" :> "May damage fertility or the unborn child"
    @@ "H361" :> "Suspected of damaging fertility or the unborn child"
    @@ "H362" :> "May cause harm to breast-fed children"
    @@ "H370" :> "Causes damage to organs"
    @@ "H371" :> "May cause damage to organs"
    @@ "H372" :> "Causes damage to organs through prolonged or repeated exposure"
    @@ "H373" :> "May cause damage to organs through prolonged or repeated exposure"
    @@ "H400" :> "Very toxic to aquatic life"
    @@ "H401" :> "Toxic to aquatic life"
    @@ "H402" :> "Harmful to aquatic life"
    @@ "H410" :> "Very toxic to aquatic life with long lasting effects"
    @@ "H411" :> "Toxic to aquatic life with long lasting effects"
    @@ "H412" :> "Harmful to aquatic life with long lasting effects"
    @@ "H413" :> "May cause long lasting harmful effects to aquatic life"
    @@ "H420" :> "Harms public health and the environment by destroying ozone in the upper atmosphere"

\* GHS_P_CODES: precautionary code -> canonical text
GHS_P_CODES ==
       "P201" :> "Obtain special instructions before use."
    @@ "P202" :> "Do not handle until all safety precautions have been read and understood."
    @@ "P210" :> "Keep away from heat, hot surfaces, sparks, open flames and other ignition sources. No smoking."
    @@ "P211" :> "Do not spray on an open flame or other ignition source."
    @@ "P220" :> "Keep away from clothing and other combustible materials."
    @@ "P221" :> "Take any precaution to avoid mixing with combustibles."
    @@ "P222" :> "Do not allow contact with air."
    @@ "P223" :> "Do not allow contact with water."
    @@ "P230" :> "Keep wetted with water."
    @@ "P231" :> "Handle under inert gas."
    @@ "P232" :> "Protect from moisture."
    @@ "P233" :> "Keep container tightly closed."
    @@ "P234" :> "Keep only in original container."
    @@ "P235" :> "Keep cool."
    @@ "P240" :> "Ground/bond container and receiving equipment."
    @@ "P241" :> "Use explosion-proof electrical/ventilating/lighting equipment."
    @@ "P242" :> "Use only non-sparking tools."
    @@ "P243" :> "Take precautionary measures against static discharge."
    @@ "P244" :> "Keep valves and fittings free from oil and grease."
    @@ "P250" :> "Do not subject to grinding/shock/friction."
    @@ "P251" :> "Pressurized container: Do not pierce or burn, even after use."
    @@ "P260" :> "Do not breathe dust/fume/gas/mist/vapors/spray."
    @@ "P261" :> "Avoid breathing dust/fume/gas/mist/vapors/spray."
    @@ "P262" :> "Do not get in eyes, on skin, or on clothing."
    @@ "P263" :> "Avoid contact during pregnancy/while nursing."
    @@ "P264" :> "Wash hands thoroughly after handling."
    @@ "P270" :> "Do not eat, drink or smoke when using this product."
    @@ "P271" :> "Use only outdoors or in a well-ventilated area."
    @@ "P272" :> "Contaminated work clothing should not be allowed out of the workplace."
    @@ "P273" :> "Avoid release to the environment."
    @@ "P280" :> "Wear protective gloves/protective clothing/eye protection/face protection."
    @@ "P281" :> "Use personal protective equipment as required."
    @@ "P282" :> "Wear cold insulating gloves/face shield/eye protection."
    @@ "P283" :> "Wear fire/flame resistant/retardant clothing."
    @@ "P284" :> "Wear respiratory protection."
    @@ "P285" :> "In case of inadequate ventilation wear respiratory protection."
    @@ "P301" :> "IF SWALLOWED:"
    @@ "P302" :> "IF ON SKIN:"
    @@ "P303" :> "IF ON SKIN (or hair):"
    @@ "P304" :> "IF INHALED:"
    @@ "P305" :> "IF IN EYES:"
    @@ "P306" :> "IF ON CLOTHING:"
    @@ "P307" :> "IF exposed:"
    @@ "P308" :> "IF exposed or concerned:"
    @@ "P309" :> "IF exposed or if you feel unwell:"
    @@ "P310" :> "Immediately call a POISON CENTER or doctor/physician."
    @@ "P311" :> "Call a POISON CENTER or doctor/physician."
    @@ "P312" :> "Call a POISON CENTER or doctor/physician if you feel unwell."
    @@ "P313" :> "Get medical advice/attention."
    @@ "P314" :> "Get medical advice/attention if you feel unwell."
    @@ "P315" :> "Get immediate medical advice/attention."
    @@ "P320" :> "Specific treatment is urgent (see supplemental first aid instructions on this label)."
    @@ "P321" :> "Specific treatment (see supplemental first aid instructions on this label)."
    @@ "P322" :> "Specific measures (see supplemental first aid instructions on this label)."
    @@ "P330" :> "Rinse mouth."
    @@ "P331" :> "Do NOT induce vomiting."
    @@ "P332" :> "If skin irritation occurs:"
    @@ "P333" :> "If skin irritation or rash occurs:"
    @@ "P334" :> "Immerse in cool water/wrap in wet bandages."
    @@ "P335" :> "Brush off loose particles from skin."
    @@ "P336" :> "Thaw frosted parts with lukewarm water. Do not rub affected area."
    @@ "P337" :> "If eye irritation persists:"
    @@ "P338" :> "Remove contact lenses, if present and easy to do. Continue rinsing."
    @@ "P340" :> "Remove person to fresh air and keep comfortable for breathing."
    @@ "P341" :> "If breathing is difficult, remove person to fresh air and keep comfortable for breathing."
    @@ "P342" :> "If experiencing respiratory symptoms:"
    @@ "P350" :> "Gently wash with plenty of soap and water."
    @@ "P351" :> "Rinse cautiously with water for several minutes."
    @@ "P352" :> "Wash with plenty of soap and water."
    @@ "P353" :> "Rinse skin with water/shower."
    @@ "P360" :> "Rinse immediately contaminated clothing and skin with plenty of water before removing clothes."
    @@ "P361" :> "Remove/Take off immediately all contaminated clothing."
    @@ "P362" :> "Take off contaminated clothing and wash before reuse."
    @@ "P363" :> "Wash contaminated clothing before reuse."
    @@ "P364" :> "And wash it before reuse."
    @@ "P370" :> "In case of fire:"
    @@ "P371" :> "In case of major fire and large quantities:"
    @@ "P372" :> "Explosion risk in case of fire."
    @@ "P373" :> "DO NOT fight fire when fire reaches explosives."
    @@ "P374" :> "Fight fire with normal precautions from a reasonable distance."
    @@ "P375" :> "Fight fire remotely due to the risk of explosion."
    @@ "P376" :> "Stop leak if safe to do so."
    @@ "P377" :> "Leaking gas fire: Do not extinguish, unless leak can be stopped safely."
    @@ "P378" :> "Use dry sand, dry chemical or alcohol-resistant foam for extinction."
    @@ "P380" :> "Evacuate area."
    @@ "P381" :> "Eliminate all ignition sources if safe to do so."
    @@ "P390" :> "Absorb spillage to prevent material damage."
    @@ "P391" :> "Collect spillage."
    @@ "P401" :> "Store in accordance with local/regional/national/international regulations."
    @@ "P402" :> "Store in a dry place."
    @@ "P403" :> "Store in a well-ventilated place."
    @@ "P404" :> "Store in a closed container."
    @@ "P405" :> "Store locked up."
    @@ "P406" :> "Store in corrosive resistant container with resistant inner liner."
    @@ "P407" :> "Maintain air gap between stacks/pallets."
    @@ "P410" :> "Protect from sunlight."
    @@ "P411" :> "Store at temperatures not exceeding specified temperature."
    @@ "P412" :> "Do not expose to temperatures exceeding 50째C/122째F."
    @@ "P413" :> "Store bulk masses greater than specified value at temperatures not exceeding specified temperature."
    @@ "P420" :> "Store away from other materials."
    @@ "P501" :> "Dispose of contents/container in accordance with local/regional/national/international regulations."
    @@ "P502" :> "Refer to manufacturer or supplier for information on recovery or recycling."
    @@ "P301+P310" :> "IF SWALLOWED: Immediately call a POISON CENTER or doctor/physician."
    @@ "P301+P312" :> "IF SWALLOWED: Call a POISON CENTER or doctor/physician if you feel unwell."
    @@ "P301+P330+P331" :> "IF SWALLOWED: Rinse mouth. Do NOT induce vomiting."
    @@ "P302+P334" :> "IF ON SKIN: Immerse in cool water/wrap in wet bandages."
    @@ "P302+P350" :> "IF ON SKIN: Gently wash with plenty of soap and water."
    @@ "P302+P352" :> "IF ON SKIN: Wash with plenty of soap and water."
    @@ "P303+P361+P353" :> "IF ON SKIN (or hair): Remove/Take off immediately all contaminated clothing. Rinse skin with water/shower."
    @@ "P304+P312" :> "IF INHALED: Call a POISON CENTER or doctor/physician if you feel unwell."
    @@ "P304+P340" :> "IF INHALED: Remove person to fresh air and keep comfortable for breathing."
    @@ "P304+P341" :> "IF INHALED: If breathing is difficult, remove person to fresh air and keep comfortable for breathing."
    @@ "P305+P351+P338" :> "IF IN EYES: Rinse cautiously with water for several minutes. Remove contact lenses, if present and easy to do. Continue rinsing."
    @@ "P306+P360" :> "IF ON CLOTHING: Rinse immediately contaminated clothing and skin with plenty of water before removing clothes."
    @@ "P307+P311" :> "IF exposed: Call a POISON CENTER or doctor/physician."
    @@ "P308+P313" :> "IF exposed or concerned: Get medical advice/attention."
    @@ "P309+P311" :> "IF exposed or if you feel unwell: Call a POISON CENTER or doctor/physician."
    @@ "P332+P313" :> "If skin irritation occurs: Get medical advice/attention."
    @@ "P333+P313" :> "If skin irritation or rash occurs: Get medical advice/attention."
    @@ "P335+P334" :> "Brush off loose particles from skin. Immerse in cool water/wrap in wet bandages."
    @@ "P337+P313" :> "If eye irritation persists: Get medical advice/attention."
    @@ "P342+P311" :> "If experiencing respiratory symptoms: Call a POISON CENTER or doctor/physician."
    @@ "P370+P376" :> "In case of fire: Stop leak if safe to do so."
    @@ "P370+P378" :> "In case of fire: Use dry sand, dry chemical or alcohol-resistant foam for extinction."
    @@ "P370+P380" :> "In case of fire: Evacuate area."
    @@ "P370+P380+P375" :> "In case of fire: Evacuate area. Fight fire remotely due to the risk of explosion."
    @@ "P371+P380+P375" :> "In case of major fire and large quantities: Evacuate area. Fight fire remotely due to the risk of explosion."
    @@ "P402+P404" :> "Store in a dry place. Store in a closed container."
    @@ "P403+P233" :> "Store in a well-ventilated place. Keep container tightly closed."
    @@ "P403+P235" :> "Store in a well-ventilated place. Keep cool."
    @@ "P410+P403" :> "Protect from sunlight. Store in a well-ventilated place."
    @@ "P410+P412" :> "Protect from sunlight. Do not expose to temperatures exceeding 50째C/122째F."

\* PICTOGRAM_H_CODE_MAP: pictogram -> the hazard codes that imply it
PICTOGRAM_H_CODE_MAP ==
       "GHS01" :> <<"H200", "H201", "H202", "H203", "H204", "H205", "H240", "H241">>
    @@ "GHS02" :> <<"H220", "H221", "H222", "H223", "H224", "H225", "H226", "H227", "H228", "H241", "H242", "H250", "H251", "H252", "H260", "H261">>
    @@ "GHS03" :> <<"H270", "H271", "H272">>
    @@ "GHS04" :> <<"H280", "H281">>
    @@ "GHS05" :> <<"H290", "H314", "H318">>
    @@ "GHS06" :> <<"H300", "H301", "H310", "H311", "H330", "H331">>
    @@ "GHS07" :> <<"H302", "H312", "H315", "H317", "H319", "H332", "H335", "H336">>
    @@ "GHS08" :> <<"H304", "H334", "H340", "H341", "H350", "H351", "H360", "H361", "H370", "H371", "H372", "H373">>
    @@ "GHS09" :> <<"H400", "H410", "H411", "H420">>

\* EUH_CODES: EU supplemental hazard statements
EUH_CODES ==
       "EUH001" :> "Explosive when dry."
    @@ "EUH006" :> "Explosive with or without contact with air."
    @@ "EUH014" :> "Reacts violently with water."
    @@ "EUH018" :> "In use, may form flammable/explosive vapor-air mixture."
    @@ "EUH019" :> "May form explosive peroxides."
    @@ "EUH029" :> "Contact with water liberates toxic gas."
    @@ "EUH031" :> "Contact with acids liberates toxic gas."
    @@ "EUH032" :> "Contact with acids liberates very toxic gas."
    @@ "EUH044" :> "Risk of explosion if heated under confinement."
    @@ "EUH066" :> "Repeated exposure may cause skin dryness or cracking."
    @@ "EUH070" :> "Toxic by eye contact."
    @@ "EUH071" :> "Corrosive to the respiratory tract."
    @@ "EUH201" :> "Contains lead. Should not be used on surfaces liable to be chewed or sucked by children."
    @@ "EUH202" :> "Cyanoacrylate. Danger. Bonds skin and eyes in seconds. Keep out of the reach of children."
    @@ "EUH203" :> "Contains chromium (VI). May produce an allergic reaction."
    @@ "EUH204" :> "Contains isocyanates. May produce an allergic reaction."
    @@ "EUH205" :> "Contains epoxy constituents. May produce an allergic reaction."
    @@ "EUH206" :> "Warning! Do not use together with other products. May release dangerous gases (chlorine)."
    @@ "EUH207" :> "Warning! Contains cadmium. Dangerous fumes are formed during use. See information supplied by the manufacturer. Comply with the safety instructions."
    @@ "EUH208" :> "Contains sensitizing substance. May produce an allergic reaction."
    @@ "EUH209" :> "Can become highly flammable in use."
    @@ "EUH210" :> "Safety data sheet available on request."
    @@ "EUH401" :> "To avoid risks to human health and the environment, comply with the instructions for use."

\* CHEMICAL_EUH_REQUIREMENTS, in the dict's insertion order
CHEMICAL_EUH_REQUIREMENTS ==
    << << "sodium hypochlorite", << "EUH031" >> >>,
       << "bleach", << "EUH031" >> >>,
       << "hypochlorite", << "EUH031" >> >>,
       << "chlorine", << "EUH031" >> >> >>

\* ------------------------------------------------------------------------
\* validate_hazard_statements
\* ------------------------------------------------------------------------

\* ValidateStatement dropping a statement whose code is not in the Registry
ValidateStatement_DropsUnknown(stmt) ==
    LET parts == SplitColon(stmt)
        code == StrUpper(StrStrip(parts[1]))
    IN  IF code \in DOMAIN GHS_H_CODES
        THEN LET official_text == GHS_H_CODES[code]
                 extracted_text == IF Len(parts) > 1 THEN StrStrip(parts[2]) ELSE ""
                 similarity == Ratio(StrLower(official_text), StrLower(extracted_text))
             IN  [append |-> << code \o ": " \o official_text >>,
                  review |-> RatioBelowThreshold(similarity)]
        ELSE [append |-> << >>, review |-> TRUE]

\* ValidateStatement replacing the text only when it differs too much
ValidateStatement_KeepsNearMatch(stmt) ==
    LET parts == SplitColon(stmt)
        code == StrUpper(StrStrip(parts[1]))
    IN  IF code \in DOMAIN GHS_H_CODES
        THEN LET official_text == GHS_H_CODES[code]
                 extracted_text == IF Len(parts) > 1 THEN StrStrip(parts[2]) ELSE ""
                 similarity == Ratio(StrLower(official_text), StrLower(extracted_text))
             IN  IF RatioBelowThreshold(similarity)
                 THEN [append |-> << code \o ": " \o official_text >>, review |-> TRUE]
                 ELSE [append |-> << stmt >>, review |-> FALSE]
        ELSE [append |-> << stmt >>, review |-> TRUE]

\* ValidateStatement not flagging a code that is absent from the Registry
ValidateStatement_UnknownNotFlagged(stmt) ==
    LET parts == SplitColon(stmt)
        code == StrUpper(StrStrip(parts[1]))
    IN  IF code \in DOMAIN GHS_H_CODES
        THEN LET official_text == GHS_H_CODES[code]
                 extracted_text == IF Len(parts) > 1 THEN StrStrip(parts[2]) ELSE ""
                 similarity == Ratio(StrLower(official_text), StrLower(extracted_text))
             IN  [append |-> << code \o ": " \o official_text >>,
                  review |-> RatioBelowThreshold(similarity)]
        ELSE [append |-> << stmt >>, review |-> FALSE]

\* One iteration of the loop over the statements: what is appended to
\* `validated` and whether needs_review is set.
ValidateStatement(stmt) ==
    LET parts == SplitColon(stmt)
        code == StrUpper(StrStrip(parts[1]))
    IN  IF code \in DOMAIN GHS_H_CODES
        THEN LET official_text == GHS_H_CODES[code]
                 extracted_text == IF Len(parts) > 1 THEN StrStrip(parts[2]) ELSE ""
                 similarity == Ratio(StrLower(official_text), StrLower(extracted_text))
             IN  IF RatioBelowThreshold(similarity)
                 THEN [append |-> << code \o ": " \o official_text >>, review |-> TRUE]
                 ELSE [append |-> << code \o ": " \o official_text >>, review |-> FALSE]
        ELSE [append |-> << stmt >>, review |-> TRUE]


\* ------------------------------------------------------------------------
\* Inputs: what the extraction step (or an API caller) may supply
\* ------------------------------------------------------------------------

\* longest hazard-statement list supplied
MaxHazardStatements == 2

\* Hazard statements as extracted: exact, near-match and mismatching texts of
\* Registry codes, lower-case and padded codes, a bare code, codes absent
\* from the Registry and bare text.
HazardStatementPool ==
    { "H314: Causes severe skin burns and eye damage",
      " h318 : causes serious eye damage.",
      "H314: Corrosive",
      "H332: Harmful if inhaled",
      "H226",
      "H999: Unknown hazard",
      "H350x: cancer risk",
      "Flammable" }

RECURSIVE SeqsUpTo(_, _)
SeqsUpTo(S, n) ==
    IF n = 0 THEN { << >> }
    ELSE LET shorter == SeqsUpTo(S, n - 1)
         IN  shorter \cup { Append(q, e) : q \in { r \in shorter : Len(r) = n - 1 }, e \in S }

HazardStatementInputs == SeqsUpTo(HazardStatementPool, MaxHazardStatements)

\* signal_word is Literal["Danger", "Warning", "None"] on a GHSLabel
\* (models.py) and any string on POST /validate (main.py)
SignalWordLiterals == { "Danger", "Warning", "None" }

SignalWordInputs == SignalWordLiterals \cup { "danger" }

PrecautionaryInputs ==
    { << >>,
      << "P280: Wear protective gloves/protective clothing/eye protection/face protection." >>,
      << "P264: Wash hands thoroughly after handling." >>,
      << "P264: Wash hands thoroughly after handling.", "Wear gloves (see P280)" >> }

PictogramInputs == { << >>, << "GHS07", "GHS02" >> }

ProductInputs == { "Acetone", "Bleach (Sodium Hypochlorite 5%)" }

\* ------------------------------------------------------------------------
\* validate_hazard_statements (continued)
\* ------------------------------------------------------------------------

\* ValidateStatement is computed once for each statement that can be supplied
\* and for each statement the validator returns (hazlabel_guard validates the
\* validated list again)
StatementTable == [stmt \in HazardStatementPool |-> ValidateStatement(stmt)]

ValidatedStatements ==
    UNION { { StatementTable[stmt].append[i] : i \in 1..Len(StatementTable[stmt].append) } :
            stmt \in HazardStatementPool }

RevalidationTable ==
    [stmt \in ValidatedStatements \ HazardStatementPool |-> ValidateStatement(stmt)]

StatementStep(stmt) ==
    IF stmt \in DOMAIN StatementTable THEN StatementTable[stmt]
    ELSE IF stmt \in DOMAIN RevalidationTable THEN RevalidationTable[stmt]
    ELSE ValidateStatement(stmt)

\* for stmt in statements: ...
RECURSIVE HazardLoop(_, _, _)
HazardLoopStep(statements, validated, needs_review, step) ==
    HazardLoop(Tail(statements), validated \o step.append, needs_review \/ step.review)

HazardLoop(statements, validated, needs_review) ==
    IF statements = << >> THEN << validated, needs_review >>
    ELSE HazardLoopStep(statements, validated, needs_review,
                        StatementStep(Head(statements)))

\* returns (validated_statements, needs_review_flag)
validate_hazard_statements(statements) == HazardLoop(statements, << >>, FALSE)

\* ------------------------------------------------------------------------
\* validate_ghs_label
\* ------------------------------------------------------------------------

None == "<None>"

ValidationIssue(code, severity, message, suggestion) ==
    [code |-> code, severity |-> severity, message |-> message, suggestion |-> suggestion]

\* re.match(r'^(H\d{3})', s.upper()): the matched group, or None
\* (upper() maps character by character, so only the first four are mapped)
MatchHCode(s) ==
    LET u == StrUpper(SubSeq(s, 1, IF Len(s) < 4 THEN Len(s) ELSE 4))
    IN  IF /\ Len(u) >= 4
           /\ CharAt(u, 1) = "H"
           /\ \A i \in 2..4 : IsDigit(CharAt(u, i))
        THEN SubSeq(u, 1, 4)
        ELSE None

\* 2. clean codes of a statement list, in order
RECURSIVE CleanCodes(_)
CleanCodes(stmts) ==
    IF stmts = << >> THEN << >>
    ELSE LET match == MatchHCode(Head(stmts))
         IN  (IF match # None THEN << match >> ELSE << >>) \o CleanCodes(Tail(stmts))

InList(x, list) == \E i \in 1..Len(list) : list[i] = x

\* critical_h without the serious-eye-damage code
critical_h_WithoutH318 == << "H300", "H310", "H330", "H314", "H340", "H350", "H360", "H370" >>

critical_h == << "H300", "H310", "H330", "H314", "H318", "H340", "H350", "H360", "H370" >>

\* 1. issue raised when the statement validator flags review
HazardStatementIssues(h_needs_review) ==
    IF h_needs_review
    THEN << ValidationIssue("HAZARD_STATEMENTS", "warning",
              "Some hazard statements might be non-standard or misspelled",
              "Verify against GHS Rev 11") >>
    ELSE << >>

\* 3. the signal word the hazards require
SuggestedSignalWord(clean_h) ==
    IF \E i \in 1..Len(clean_h) : InList(clean_h[i], critical_h)
    THEN "Danger"
    ELSE "Warning"

\* SignalWordIssues raising the mismatch as an error instead of a critical
SignalWordIssues_AsError(signal_word, suggested_sw) ==
    IF ~(signal_word = suggested_sw)
    THEN << ValidationIssue("SIGNAL_WORD", "error",
              "Signal word should be '" \o suggested_sw
                 \o "' based on hazards, found '" \o signal_word \o "'",
              "Change signal word to " \o suggested_sw) >>
    ELSE << >>

SignalWordIssues(signal_word, suggested_sw) ==
    IF ~(signal_word = suggested_sw)
    THEN << ValidationIssue("SIGNAL_WORD", "critical",
              "Signal word should be '" \o suggested_sw
                 \o "' based on hazards, found '" \o signal_word \o "'",
              "Change signal word to " \o suggested_sw) >>
    ELSE << >>

\* MissingPCodes comparing each precautionary statement with "P280" instead
\* of searching it
MissingPCodes_WholeStatement(clean_h, precautionary_statements) ==
    IF /\ InList("H314", clean_h)
       /\ ~ \E i \in 1..Len(precautionary_statements) :
              precautionary_statements[i] = "P280"
    THEN [missing_p |-> << "P280" >>,
          issues |-> << ValidationIssue("H314", "error",
                          "Corrosive hazard H314 requires P280 (protective equipment)",
                          "Add P280") >>]
    ELSE [missing_p |-> << >>, issues |-> << >>]

\* 4. missing P-codes and their issues
MissingPCodes(clean_h, precautionary_statements) ==
    IF /\ InList("H314", clean_h)
       /\ ~ \E i \in 1..Len(precautionary_statements) :
              Contains(precautionary_statements[i], "P280")
    THEN [missing_p |-> << "P280" >>,
          issues |-> << ValidationIssue("H314", "error",
                          "Corrosive hazard H314 requires P280 (protective equipment)",
                          "Add P280") >>]
    ELSE [missing_p |-> << >>, issues |-> << >>]

\* IsValid looking at the first issue only
IsValid_FirstIssueOnly(issues) == ~ (Len(issues) > 0 /\ issues[1].severity = "error")

\* is_valid = not any(i.severity == ValidationSeverity.ERROR for i in issues)
IsValid(issues) == ~ \E i \in 1..Len(issues) : issues[i].severity = "error"

\* needs_review = needs_review or len(issues) > 0
NeedsReview(needs_review, issues) == needs_review \/ Len(issues) > 0

\* steps 2-4 and the result, given what validate_hazard_statements returned
ValidationResult(signal_word, precautionary_statements, vh) ==
    LET validated_h == vh[1]
        h_needs_review == vh[2]
        clean_h == CleanCodes(validated_h)
        suggested_sw == SuggestedSignalWord(clean_h)
        sw_valid == (signal_word = suggested_sw)
        missing == MissingPCodes(clean_h, precautionary_statements)
        issues == HazardStatementIssues(h_needs_review)
                    \o SignalWordIssues(signal_word, suggested_sw)
                    \o missing.issues
    IN  [is_valid |-> IsValid(issues),
         needs_review |-> NeedsReview(h_needs_review, issues),
         issues |-> issues,
         validated_hazard_statements |-> validated_h,
         validated_precautionary_statements |-> precautionary_statements,
         missing_p_codes |-> missing.missing_p,
         signal_word_valid |-> sw_valid,
         suggested_signal_word |-> suggested_sw]

validate_ghs_label(signal_word, hazard_statements, precautionary_statements, pictograms) ==
    ValidationResult(signal_word, precautionary_statements,
                     validate_hazard_statements(hazard_statements))

\* ------------------------------------------------------------------------
\* suggest_pictograms_for_codes
\* ------------------------------------------------------------------------

\* the alphanumeric characters in code-point order: Python compares strings
\* by code point (pictogram identifiers are alphanumeric)
AsciiOrder == Digits \o UpperLetters \o LowerLetters

OrdMap == [c \in CharsOf(AsciiOrder) |->
             CHOOSE i \in 1..Len(AsciiOrder) : CharAt(AsciiOrder, i) = c]

Ord(c) == OrdMap[c]

\* a < b on str
RECURSIVE StrLess(_, _)
StrLess(a, b) ==
    IF b = "" THEN FALSE
    ELSE IF a = "" THEN TRUE
    ELSE IF Head(a) = Head(b) THEN StrLess(Tail(a), Tail(b))
    ELSE Ord(Head(a)) < Ord(Head(b))

\* list(S) in descending order
RECURSIVE Sorted_Descending(_)
Sorted_Descending(S) ==
    IF S = {} THEN << >>
    ELSE LET greatest == CHOOSE a \in S : \A b \in S \ {a} : StrLess(b, a)
         IN  << greatest >> \o Sorted_Descending(S \ {greatest})

\* sorted(list(S)) for a set of strings
RECURSIVE Sorted(_)
Sorted(S) ==
    IF S = {} THEN << >>
    ELSE LET least == CHOOSE a \in S : \A b \in S \ {a} : StrLess(a, b)
         IN  << least >> \o Sorted(S \ {least})

AnyCodeIn(clean_codes, list) == \E i \in 1..Len(clean_codes) : InList(clean_codes[i], list)

\* the mapping with every H4xx code taken as an environment pictogram code
MappedPictograms_AllH4xx(clean_codes) ==
    { pictogram \in DOMAIN PICTOGRAM_H_CODE_MAP :
        AnyCodeIn(clean_codes, PICTOGRAM_H_CODE_MAP[pictogram]) }
    \cup (IF \E i \in 1..Len(clean_codes) : SubSeq(clean_codes[i], 1, 2) = "H4"
          THEN { "GHS09" } ELSE {})

\* Map H-codes to pictograms
MappedPictograms(clean_codes) ==
    { pictogram \in DOMAIN PICTOGRAM_H_CODE_MAP :
        AnyCodeIn(clean_codes, PICTOGRAM_H_CODE_MAP[pictogram]) }

\* rule 1 discarding the wrong pictogram
PictogramRule1_DiscardsGHS06(suggested, clean_codes) ==
    IF "GHS06" \in suggested /\ "GHS07" \in suggested
    THEN suggested \ { "GHS06" }
    ELSE suggested

\* Rule 1: GHS06 (skull and crossbones) discards GHS07
PictogramRule1(suggested, clean_codes) ==
    IF "GHS06" \in suggested /\ "GHS07" \in suggested
    THEN suggested \ { "GHS07" }
    ELSE suggested

\* rule 2 without looking at which codes triggered GHS07
PictogramRule2_AnyTrigger(suggested, clean_codes) ==
    IF "GHS05" \in suggested /\ "GHS07" \in suggested
    THEN IF AnyCodeIn(clean_codes, << "H314", "H318" >>)
         THEN suggested \ { "GHS07" }
         ELSE suggested
    ELSE suggested

\* Rule 2: GHS05 (corrosion) discards GHS07 when GHS07 is triggered only by
\* skin/eye irritation codes and GHS05 by H314 or H318
PictogramRule2(suggested, clean_codes) ==
    IF "GHS05" \in suggested /\ "GHS07" \in suggested
    THEN LET ghs07_only_irritation ==
                 \A i \in 1..Len(clean_codes) :
                     InList(clean_codes[i], PICTOGRAM_H_CODE_MAP["GHS07"])
                         => InList(clean_codes[i], << "H315", "H319", "H320" >>)
         IN  IF ghs07_only_irritation /\ AnyCodeIn(clean_codes, << "H314", "H318" >>)
             THEN suggested \ { "GHS07" }
             ELSE suggested
    ELSE suggested

\* rule 3 without looking for acute-exposure codes
PictogramRule3_Unconditional(suggested, clean_codes) ==
    IF "GHS08" \in suggested /\ "GHS07" \in suggested
    THEN suggested \ { "GHS07" }
    ELSE suggested

\* Rule 3: GHS08 (health hazard) discards GHS07 unless an acute-exposure
\* code needs it
PictogramRule3(suggested, clean_codes) ==
    IF "GHS08" \in suggested /\ "GHS07" \in suggested
    THEN LET ghs07_needed == AnyCodeIn(clean_codes, << "H302", "H312", "H332", "H336" >>)
         IN  IF ~ghs07_needed THEN suggested \ { "GHS07" } ELSE suggested
    ELSE suggested

suggest_pictograms_for_codes(h_codes) ==
    LET clean_codes == CleanCodes(h_codes)
        mapped == MappedPictograms(clean_codes)
        after1 == PictogramRule1(mapped, clean_codes)
        after2 == PictogramRule2(after1, clean_codes)
        after3 == PictogramRule3(after2, clean_codes)
    IN  Sorted(after3)

\* ------------------------------------------------------------------------
\* get_supplemental_hazards
\* ------------------------------------------------------------------------

RECURSIVE EuhStatements(_)
EuhStatements(euh_codes) ==
    IF euh_codes = << >> THEN << >>
    ELSE LET euh == Head(euh_codes)
         IN  (IF euh \in DOMAIN EUH_CODES
              THEN << euh \o ": " \o EUH_CODES[euh] >>
              ELSE << >>) \o EuhStatements(Tail(euh_codes))

RECURSIVE SupplementalLoop(_, _, _)
SupplementalLoop(requirements, product_lower, supplemental) ==
    IF requirements = << >> THEN supplemental
    ELSE LET chemical == Head(requirements)[1]
             euh_codes == Head(requirements)[2]
         IN  SupplementalLoop(Tail(requirements), product_lower,
                 IF Contains(product_lower, chemical)
                 THEN supplemental \o EuhStatements(euh_codes)
                 ELSE supplemental)

get_supplemental_hazards(product_name, h_codes) ==
    LET product_lower == IF product_name # None /\ product_name # ""
                         THEN StrLower(product_name) ELSE ""
    IN  SupplementalLoop(CHEMICAL_EUH_REQUIREMENTS, product_lower, << >>)


\* ------------------------------------------------------------------------
\* hazlabel_guard
\* ------------------------------------------------------------------------

\* The guard's sds_age_warning and sds_years_old depend on sds_date and on
\* the wall clock (validate_sds_age); they, and the label's supplier_info and
\* sds_date, are copied through unchanged by the parsers and take no part in
\* validation, so they are not carried in the state here.

RECURSIVE GuardIssues(_)
GuardIssues(issues) ==
    IF issues = << >> THEN << >>
    ELSE << [code |-> Head(issues).code, severity |-> Head(issues).severity,
             message |-> Head(issues).message] >> \o GuardIssues(Tail(issues))

\* the returned dict, given the validation result, the supplemental hazards
\* and the pictograms suggested for the hazard statements
GuardResult(validation_result, supplemental_hazards, suggested) ==
    [validated_data |->
        [hazard_statements |-> validation_result.validated_hazard_statements,
         precautionary_statements |->
             validation_result.validated_precautionary_statements,
         pictograms |-> suggested],
     suggested_pictograms |-> suggested,
     supplemental_hazards |-> supplemental_hazards,
     issues |-> GuardIssues(validation_result.issues),
     is_valid |-> validation_result.is_valid]

hazlabel_guard(product_name, hazard_statements, precautionary_statements, pictograms) ==
    GuardResult(validate_ghs_label("Danger", hazard_statements,
                                   precautionary_statements, pictograms),
                get_supplemental_hazards(product_name, hazard_statements),
                suggest_pictograms_for_codes(hazard_statements))

\* ------------------------------------------------------------------------
\* parser.py
\* ------------------------------------------------------------------------

\* _convert_validation_result: ValidationResult -> ValidationResponse
\* (suggested_pictograms empty, supplemental_hazards by default empty)
ConvertValidationResult(result) ==
    [is_valid |-> result.is_valid,
     needs_review |-> result.needs_review,
     issues |-> result.issues,
     validated_hazard_statements |-> result.validated_hazard_statements,
     validated_precautionary_statements |-> result.validated_precautionary_statements,
     missing_p_codes |-> result.missing_p_codes,
     signal_word_valid |-> result.signal_word_valid,
     suggested_signal_word |-> result.suggested_signal_word,
     suggested_pictograms |-> << >>,
     supplemental_hazards |-> << >>]

\* CorrectedSignalWordAi looking for an error-severity SIGNAL_WORD issue
CorrectedSignalWordAi_OnError(signal_word, validation_result) ==
    IF ~validation_result.signal_word_valid /\ validation_result.suggested_signal_word # ""
    THEN IF \E i \in 1..Len(validation_result.issues) :
                /\ validation_result.issues[i].code = "SIGNAL_WORD"
                /\ validation_result.issues[i].severity = "error"
         THEN validation_result.suggested_signal_word
         ELSE signal_word
    ELSE signal_word

\* "Apply signal word correction if critical" (parse_sds_with_ai)
CorrectedSignalWordAi(signal_word, validation_result) ==
    IF ~validation_result.signal_word_valid /\ validation_result.suggested_signal_word # ""
    THEN IF \E i \in 1..Len(validation_result.issues) :
                /\ validation_result.issues[i].code = "SIGNAL_WORD"
                /\ validation_result.issues[i].severity = "critical"
         THEN validation_result.suggested_signal_word
         ELSE signal_word
    ELSE signal_word

\* signal_word of the validated label (parse_sds_with_validation)
CorrectedSignalWordValidated(signal_word, validation_result) ==
    IF ~validation_result.signal_word_valid
    THEN validation_result.suggested_signal_word
    ELSE signal_word

\* parse_sds_with_ai after the guard ran: inject the supplemental hazards and
\* correct the signal word
ParseAiReturn(extracted, validation_result, pictograms, guard) ==
    << [product_identifier |-> extracted.product_identifier,
        signal_word |-> CorrectedSignalWordAi(extracted.signal_word, validation_result),
        hazard_statements |->
            IF guard.supplemental_hazards # << >>
            THEN validation_result.validated_hazard_statements
                    \o guard.supplemental_hazards
            ELSE validation_result.validated_hazard_statements,
        precautionary_statements |->
            validation_result.validated_precautionary_statements,
        pictograms |-> pictograms],
       validation_result.needs_review >>

\* parse_sds_with_ai after the validation: override the pictograms, run the guard
ParseAiValidated(extracted, validation_result, pictograms) ==
    ParseAiReturn(extracted, validation_result, pictograms,
        hazlabel_guard(extracted.product_identifier,
                       validation_result.validated_hazard_statements,
                       validation_result.validated_precautionary_statements,
                       pictograms))

\* parse_sds_with_ai, from the label the extraction returned:
\* (GHSLabel, needs_review)
ParseAi(extracted, validation_result) ==
    ParseAiValidated(extracted, validation_result,
        suggest_pictograms_for_codes(validation_result.validated_hazard_statements))

parse_sds_with_ai(extracted) ==
    ParseAi(extracted,
        validate_ghs_label(extracted.signal_word, extracted.hazard_statements,
                           extracted.precautionary_statements, extracted.pictograms))

\* the validated label of parse_sds_with_validation
ValidatedLabel(extracted, validation_result, correct_pictograms) ==
    [product_identifier |-> extracted.product_identifier,
     signal_word |->
         CorrectedSignalWordValidated(extracted.signal_word, validation_result),
     hazard_statements |-> validation_result.validated_hazard_statements,
     precautionary_statements |->
         validation_result.validated_precautionary_statements,
     pictograms |-> correct_pictograms]

\* parse_sds_with_validation after the guard ran
ParseValidatedReturn(validated_label, validation_response, guard_result) ==
    [label |-> validated_label,
     validation |->
         [validation_response EXCEPT
             !.supplemental_hazards = guard_result.supplemental_hazards]]

ParseValidatedGuard(validated_label, validation_response, product_name) ==
    ParseValidatedReturn(validated_label, validation_response,
        hazlabel_guard(product_name, validated_label.hazard_statements,
                       validated_label.precautionary_statements,
                       validated_label.pictograms))

ParseValidated(extracted, validation_result, correct_pictograms) ==
    ParseValidatedGuard(
        ValidatedLabel(extracted, validation_result, correct_pictograms),
        [ConvertValidationResult(validation_result) EXCEPT
            !.suggested_pictograms = correct_pictograms],
        extracted.product_identifier)

\* parse_sds_with_validation: GHSLabelValidated(label, validation)
parse_sds_with_validation(extracted) ==
    ParseValidated(extracted,
        validate_ghs_label(extracted.signal_word, extracted.hazard_statements,
                           extracted.precautionary_statements, extracted.pictograms),
        suggest_pictograms_for_codes(extracted.hazard_statements))

\* ------------------------------------------------------------------------
\* bulk_print_pdf: the layout of one label
\*
\* Vertical positions are measured upwards from the bottom edge y of the
\* label, in units of 1/2000 of (inch * scale): every spacing of the code is
\* a multiple of inch * scale and becomes a whole number, and a real cursor
\* compares with the whole-number boundaries as its integer part does.
\* ------------------------------------------------------------------------

\* spacing_small = 0.12 * inch * scale
spacing_small == 240

\* spacing_medium = 0.16 * inch * scale
spacing_medium == 320

\* spacing_large = 0.22 * inch * scale
spacing_large == 440

\* line_height = 0.11 * inch * scale
line_height == 220

\* line_height * 0.85, the step of a hazard continuation line
hazard_continuation_step == 187

\* line_height * 0.7, the step of a precautionary continuation line
p_continuation_step == 154

\* line_height * 0.8, the step after a precautionary statement
p_statement_step == 176

\* spacing_small * 0.5, the gap before the precautionary statements
p_gap == 120

\* bottom_margin_y = y + 0.35 * inch * scale
bottom_margin_y == 700

\* p_code_bottom_margin = y + footer_height, footer_height = 0.15 * inch * scale
p_code_bottom_margin == 300

\* footer_y = y + 0.08 * inch * scale
footer_y == 160

\* product_name[:60]
product_name_cap == 60

\* pictograms[:4]
max_pictograms == 4

\* LABEL_SIZE_CONFIG: grid of each preset (margins and gutters in 1/10000 inch)
LABEL_SIZE_CONFIG ==
       "avery_5163" :> [cols |-> 2, rows |-> 5, margin_left |-> 1875, margin_top |-> 5000, h_gutter |-> 1250, v_gutter |-> 0]
    @@ "avery_5164" :> [cols |-> 2, rows |-> 3, margin_left |-> 7500, margin_top |-> 5000, h_gutter |-> 2500, v_gutter |-> 0]
    @@ "avery_5165" :> [cols |-> 1, rows |-> 1, margin_left |-> 2500, margin_top |-> 5000, h_gutter |-> 0, v_gutter |-> 0]
    @@ "avery_5160" :> [cols |-> 3, rows |-> 10, margin_left |-> 1875, margin_top |-> 5000, h_gutter |-> 1250, v_gutter |-> 0]
    @@ "ghs_4x4" :> [cols |-> 2, rows |-> 2, margin_left |-> 2500, margin_top |-> 5000, h_gutter |-> 2500, v_gutter |-> 2500]
    @@ "ghs_4x2" :> [cols |-> 2, rows |-> 5, margin_left |-> 1875, margin_top |-> 5000, h_gutter |-> 1250, v_gutter |-> 0]
    @@ "ghs_2x2" :> [cols |-> 4, rows |-> 5, margin_left |-> 2500, margin_top |-> 5000, h_gutter |-> 1250, v_gutter |-> 1250]
    @@ "letter_full" :> [cols |-> 1, rows |-> 1, margin_left |-> 5000, margin_top |-> 5000, h_gutter |-> 0, v_gutter |-> 0]
    @@ "a4_full" :> [cols |-> 1, rows |-> 1, margin_left |-> 5000, margin_top |-> 5000, h_gutter |-> 0, v_gutter |-> 0]

FullPageSizes == { "avery_5165", "letter_full", "a4_full" }

\* config = LABEL_SIZE_CONFIG.get(label_size, LABEL_SIZE_CONFIG["avery_5163"]),
\* with one column and one row for the full-page sizes
LayoutConfig(label_size) ==
    LET config == IF label_size \in DOMAIN LABEL_SIZE_CONFIG
                  THEN LABEL_SIZE_CONFIG[label_size]
                  ELSE LABEL_SIZE_CONFIG["avery_5163"]
    IN  IF label_size \in FullPageSizes
        THEN [cols |-> 1, rows |-> 1, labels_per_page |-> 1]
        ELSE [cols |-> config.cols, rows |-> config.rows,
              labels_per_page |-> config.cols * config.rows]

\* one drawString (or drawImage) call on the canvas
DrawOp(block, text, at_y) == [block |-> block, text |-> text, y |-> at_y]

\* The number of lines a description wraps to. The code measures each word
\* with the canvas's stringWidth against max_desc_width; here every character
\* is as wide as the next and chars_per_line of them fit the column. An empty
\* description has no line.
WrappedLines(desc_part, chars_per_line) ==
    IF desc_part = "" THEN 0
    ELSE (Len(desc_part) + chars_per_line - 1) \div chars_per_line

\* for line in lines[1:]: step down, stop at the boundary, draw
RECURSIVE ContinuationLines(_, _, _, _, _, _)
ContinuationLines(remaining, current_y, step, boundary, block, ops) ==
    IF remaining <= 0 THEN [current_y |-> current_y, ops |-> ops]
    ELSE IF current_y - step < boundary
         THEN [current_y |-> current_y - step, ops |-> ops]
         ELSE ContinuationLines(remaining - 1, current_y - step, step, boundary, block,
                                Append(ops, DrawOp(block, "", current_y - step)))


\* 4. hazard statements: for stmt in all_hazards
HazardDescription(stmt) ==
    IF Contains(stmt, ":") THEN StrStrip(SplitColon(stmt)[2]) ELSE StrStrip(stmt)

RECURSIVE HazardBlock(_, _, _, _)
HazardBlockNext(rest, after, chars_per_line) ==
    HazardBlock(rest, after.current_y - line_height, after.ops, chars_per_line)

HazardBlock(all_hazards, current_y, ops, chars_per_line) ==
    IF all_hazards = << >> \/ current_y < bottom_margin_y
    THEN [current_y |-> current_y, ops |-> ops]
    ELSE HazardBlockNext(Tail(all_hazards),
             ContinuationLines(
                 WrappedLines(HazardDescription(Head(all_hazards)), chars_per_line) - 1,
                 current_y, hazard_continuation_step, bottom_margin_y, "hazard_line",
                 Append(ops, DrawOp("hazard", Head(all_hazards), current_y))),
             chars_per_line)

\* 5. precautionary statements: grouping and order
StartsWith(s, prefix) == Len(s) >= Len(prefix) /\ SubSeq(s, 1, Len(prefix)) = prefix

get_category(s) ==
    IF StartsWith(s, "P2") THEN "prevention"
    ELSE IF StartsWith(s, "P3") THEN "response"
    ELSE IF StartsWith(s, "P4") THEN "storage"
    ELSE IF StartsWith(s, "P5") THEN "disposal"
    ELSE "other"

OfCategory(p_stmts, category) ==
    SelectSeq(p_stmts, LAMBDA s : get_category(s) = category)

ordered_stmts(p_stmts) ==
    SelectSeq(OfCategory(p_stmts, "prevention"), LAMBDA s : Contains(s, "P280"))
    \o SelectSeq(OfCategory(p_stmts, "prevention"), LAMBDA s : ~Contains(s, "P280"))
    \o OfCategory(p_stmts, "response")
    \o OfCategory(p_stmts, "storage")
    \o OfCategory(p_stmts, "disposal")

PrecautionDescription(stmt) ==
    IF Contains(stmt, ":") THEN StrStrip(SplitColon(stmt)[2]) ELSE ""

\* for stmt in ordered_stmts
RECURSIVE PrecautionBlock(_, _, _, _)
PrecautionBlockNext(rest, after, chars_per_line) ==
    PrecautionBlock(rest, after.current_y - p_statement_step, after.ops, chars_per_line)

PrecautionBlock(stmts, current_y, ops, chars_per_line) ==
    IF stmts = << >> \/ current_y < p_code_bottom_margin
    THEN [current_y |-> current_y, ops |-> ops]
    ELSE PrecautionBlockNext(Tail(stmts),
             ContinuationLines(
                 WrappedLines(PrecautionDescription(Head(stmts)), chars_per_line) - 1,
                 current_y, p_continuation_step, p_code_bottom_margin, "precaution_line",
                 Append(ops, DrawOp("precaution", Head(stmts), current_y))),
             chars_per_line)

\* the footer drawn only while the cursor is still above it
FooterBlock_OnlyIfRoom(after, supplier_info) ==
    IF after.current_y >= footer_y
    THEN Append(after.ops, DrawOp("footer", supplier_info, footer_y))
    ELSE after.ops

\* 6. supplier info: always drawn (its abbreviation to the column width
\* changes the text only)
FooterBlock(after, supplier_info) ==
    Append(after.ops, DrawOp("footer", supplier_info, footer_y))

\* 1.-3. product identifier, signal word, pictograms (the pictograms go in
\* their own column, whatever the cursor)
HeaderOps(label, current_y) ==
    << DrawOp("caption", "Product Identifier:", current_y),
       DrawOp("product",
              SubSeq(label.product_identifier, 1,
                     IF Len(label.product_identifier) < product_name_cap
                     THEN Len(label.product_identifier) ELSE product_name_cap),
              current_y - spacing_small),
       DrawOp("signal_word", StrUpper(label.signal_word),
              current_y - spacing_small - spacing_medium) >>
    \o [i \in 1..(IF Len(label.pictograms) < max_pictograms
                  THEN Len(label.pictograms) ELSE max_pictograms) |->
           DrawOp("pictogram", label.pictograms[i], 0)]

\* the hazard block draws hazard_stmts + supp_stmts
AllHazards(label) ==
    label.hazard_statements
    \o get_supplemental_hazards(label.product_identifier, label.hazard_statements)

LabelAfterHazards(label, after, chars_per_line) ==
    FooterBlock(
        PrecautionBlock(ordered_stmts(label.precautionary_statements),
                        after.current_y - p_gap, after.ops, chars_per_line),
        label.supplier_info)

\* everything drawn for one label whose height is label_height
LabelOps(label, label_height, chars_per_line) ==
    LabelAfterHazards(label,
        HazardBlock(AllHazards(label),
                    label_height - spacing_medium - spacing_small
                        - spacing_medium - spacing_large,
                    HeaderOps(label, label_height - spacing_medium),
                    chars_per_line),
        chars_per_line)

\* ------------------------------------------------------------------------
\* State: one request and the value the called function returned
\* ------------------------------------------------------------------------

VARIABLES
    ghs_data,   \* the label fields supplied by the extraction or the caller
    ret,        \* what the function applied to them returned
    request,    \* a POST /print/pdf request and what the store holds for its ids
    canvas,     \* the document bulk_print_pdf has drawn so far
    store       \* the user's rows of the subscriptions and audit_logs tables

vars == << ghs_data, ret, request, canvas, store >>

NoReturn == [op |-> "none"]

\* no print request is being served
NoRequest == [chemicals |-> << >>, label_size |-> "avery_5163",
              label_height |-> 0, chars_per_line |-> 1]

NoCanvas == [next |-> 0, label_index |-> 0, pages |-> << >>, page |-> << >>,
             saved |-> FALSE]

\* no subscription and no audit event
NoStore == [subscriptions |-> << >>, audit_logs |-> 0]

NotPrinting == request = NoRequest /\ canvas = NoCanvas /\ store = NoStore

Init ==
    /\ ghs_data \in [product_identifier : ProductInputs,
                     signal_word : SignalWordInputs,
                     hazard_statements : HazardStatementInputs,
                     precautionary_statements : PrecautionaryInputs,
                     pictograms : PictogramInputs]
    /\ ret = NoReturn
    /\ NotPrinting

ValidateHazardStatements ==
    /\ ret.op = "none"
    /\ LET r == validate_hazard_statements(ghs_data.hazard_statements)
       IN  ret' = [op |-> "validate_hazard_statements",
                   validated |-> r[1], needs_review |-> r[2]]
    /\ UNCHANGED << ghs_data, request, canvas, store >>

ValidateGhsLabel ==
    /\ ret.op = "none"
    /\ ret' = [op |-> "validate_ghs_label",
               result |-> validate_ghs_label(ghs_data.signal_word,
                              ghs_data.hazard_statements,
                              ghs_data.precautionary_statements,
                              ghs_data.pictograms)]
    /\ UNCHANGED << ghs_data, request, canvas, store >>

\* the extraction returns a GHSLabel: its signal word is one of the literals
ParseSdsWithAi ==
    /\ ret.op = "none"
    /\ ghs_data.signal_word \in SignalWordLiterals
    /\ LET r == parse_sds_with_ai(ghs_data)
       IN  ret' = [op |-> "parse_sds_with_ai", label |-> r[1], needs_review |-> r[2]]
    /\ UNCHANGED << ghs_data, request, canvas, store >>

ParseSdsWithValidation ==
    /\ ret.op = "none"
    /\ ghs_data.signal_word \in SignalWordLiterals
    /\ LET r == parse_sds_with_validation(ghs_data)
       IN  ret' = [op |-> "parse_sds_with_validation",
                   label |-> r.label, validation |-> r.validation]
    /\ UNCHANGED << ghs_data, request, canvas, store >>

Next ==
    \/ ValidateHazardStatements
    \/ ValidateGhsLabel
    \/ ParseSdsWithAi
    \/ ParseSdsWithValidation

Spec == Init /\ [][Next]_vars

\* ------------------------------------------------------------------------
\* Pictogram suggestion on its own: GET /ghs/suggest-pictograms and the other
\* callers hand suggest_pictograms_for_codes a list of codes or statements
\* ------------------------------------------------------------------------

\* longest code list supplied
MaxHCodes == 3

\* Codes of every pictogram family that takes part in a precedence rule:
\* corrosion (skin/eye and metal), irritation, other exclamation-mark codes,
\* acute toxicity, health hazard, environment with and without pictogram,
\* flame; bare, lower-case and with statement text; and text without a code.
HCodePool ==
    { "H314", "H318: Causes serious eye damage", "H290",
      "H315", "h319", "H317", "H335", "H332", "H302",
      "H301", "H334",
      "H410", "H400", "H411: Toxic to aquatic life with long lasting effects",
      "H412", "H413",
      "H226", "Flammable" }

HCodeInputs == SeqsUpTo(HCodePool, MaxHCodes)

InitPictograms ==
    /\ ghs_data \in [product_identifier : { "Acetone" },
                     signal_word : { "Warning" },
                     hazard_statements : HCodeInputs,
                     precautionary_statements : { << >> },
                     pictograms : { << >> }]
    /\ ret = NoReturn
    /\ NotPrinting

SuggestPictograms ==
    /\ ret.op = "none"
    /\ ret' = [op |-> "suggest_pictograms_for_codes",
               pictograms |-> suggest_pictograms_for_codes(ghs_data.hazard_statements)]
    /\ UNCHANGED << ghs_data, request, canvas, store >>

NextPictograms == SuggestPictograms

PictogramSpec == InitPictograms /\ [][NextPictograms]_vars

\* ------------------------------------------------------------------------
\* Supplemental hazards on their own: hazlabel_guard and bulk_print_pdf hand
\* get_supplemental_hazards a product name and the hazard statements
\* ------------------------------------------------------------------------

\* most words in a product name
MaxNameWords == 3

\* words of product names: the trigger phrases in mixed case and words that
\* trigger nothing
NameWordPool == { "Bleach", "Sodium Hypochlorite", "CHLORINE", "Acetone", "Cleaner" }

RECURSIVE JoinWords(_)
JoinWords(words) ==
    IF words = << >> THEN ""
    ELSE IF Len(words) = 1 THEN words[1]
    ELSE words[1] \o " " \o JoinWords(Tail(words))

\* product names, the empty name included
ProductNameInputs == { JoinWords(words) : words \in SeqsUpTo(NameWordPool, MaxNameWords) }

InitSupplemental ==
    /\ ghs_data \in [product_identifier : ProductNameInputs,
                     signal_word : { "Danger" },
                     hazard_statements :
                         { << >>, << "H314: Causes severe skin burns and eye damage" >> },
                     precautionary_statements : { << >> },
                     pictograms : { << >> }]
    /\ ret = NoReturn
    /\ NotPrinting

GetSupplementalHazards ==
    /\ ret.op = "none"
    /\ ret' = [op |-> "get_supplemental_hazards",
               supplemental |-> get_supplemental_hazards(ghs_data.product_identifier,
                                                         ghs_data.hazard_statements)]
    /\ UNCHANGED << ghs_data, request, canvas, store >>

NextSupplemental == GetSupplementalHazards

SupplementalSpec == InitSupplemental /\ [][NextSupplemental]_vars

\* ------------------------------------------------------------------------
\* bulk_print_pdf (POST /print/pdf): one loop iteration per chemical id, then
\* the final page and the save
\* ------------------------------------------------------------------------

\* most chemical ids in a request
MaxChemicals == 2

\* labels as stored with a chemical
PrintLabelPool ==
    { [product_identifier |-> "Acetone",
       signal_word |-> "Danger",
       hazard_statements |->
           << "H225: Highly flammable liquid and vapor",
              "H319: Causes serious eye irritation",
              "H336: May cause drowsiness or dizziness" >>,
       precautionary_statements |->
           << "P210: Keep away from heat, hot surfaces, sparks, open flames and other ignition sources. No smoking.",
              "P280: Wear protective gloves/protective clothing/eye protection/face protection.",
              "P501: Dispose of contents/container in accordance with local regulations." >>,
       pictograms |-> << "GHS02", "GHS07" >>,
       supplier_info |-> "Acme Chemical Co., 1 Main Street, Springfield" ],
      [product_identifier |-> "Bleach (Sodium Hypochlorite 5%)",
       signal_word |-> "Danger",
       hazard_statements |->
           << "H314: Causes severe skin burns and eye damage",
              "H410: Very toxic to aquatic life with long lasting effects" >>,
       precautionary_statements |->
           << "P102: Keep out of reach of children.",
              "P303+P361+P353: IF ON SKIN (or hair): Take off immediately all contaminated clothing. Rinse skin with water.",
              "P280: Wear protective gloves/protective clothing/eye protection/face protection.",
              "P405: Store locked up." >>,
       pictograms |-> << "GHS05", "GHS09" >>,
       supplier_info |-> "CleanCo" ],
      [product_identifier |-> "Water",
       signal_word |-> "None",
       hazard_statements |-> << >>,
       precautionary_statements |-> << >>,
       pictograms |-> << >>,
       supplier_info |-> "" ],
      [product_identifier |-> "Mixture 7",
       signal_word |-> "Warning",
       hazard_statements |-> << "H226" >>,
       precautionary_statements |-> << "P233" >>,
       pictograms |-> << "GHS02", "GHS04", "GHS07", "GHS08", "GHS09" >>,
       supplier_info |-> "Acme Chemical Co., 1 Main Street, Springfield" ] }

\* what get_chemical_by_id returns for an id: no row, a row without ghs_data,
\* or a row with a label
ChemicalPool ==
    { [kind |-> "none"], [kind |-> "no_ghs_data"] }
    \cup { [kind |-> "label", ghs_data |-> label] : label \in PrintLabelPool }

\* label_height in the units of the layout: a 1in label at scale 0.8 (2500),
\* a 2in label at scale 1 (4000), a 4in label at scale 1.414 (5656), a 7.33in
\* label at scale 1.6 (9166), and a label too low for its header (1200)
LabelHeightInputs == { 1200, 2500, 4000, 5656, 9166 }

\* characters of a description that fit the text column
CharsPerLineInputs == { 20, 45, 200 }

LabelSizeInputs == { "avery_5163", "ghs_4x4", "letter_full" }

InitPrint ==
    /\ request \in [chemicals : SeqsUpTo(ChemicalPool, MaxChemicals) \ { << >> },
                    label_size : LabelSizeInputs,
                    label_height : LabelHeightInputs,
                    chars_per_line : CharsPerLineInputs]
    /\ canvas = [next |-> 1, label_index |-> 0, pages |-> << >>, page |-> << >>,
                 saved |-> FALSE]
    /\ ghs_data = [product_identifier |-> "", signal_word |-> "None",
                   hazard_statements |-> << >>, precautionary_statements |-> << >>,
                   pictograms |-> << >>]
    /\ ret = NoReturn
    /\ store = NoStore

Drawing == ~canvas.saved /\ canvas.next <= Len(request.chemicals)

\* if not chemical or not chemical.get("ghs_data"): continue
SkipChemical ==
    /\ Drawing
    /\ request.chemicals[canvas.next].kind # "label"
    /\ canvas' = [canvas EXCEPT !.next = @ + 1]
    /\ UNCHANGED << ghs_data, ret, request, store >>

\* the label placed in the cell of its position in the request, skipped ids
\* counted
PlacedLabel_ByChemicalIndex(chemical_index, label_index, config) ==
    [chemical |-> chemical_index,
     label_index |-> label_index,
     row |-> ((chemical_index - 1) % config.labels_per_page) \div config.cols,
     col |-> ((chemical_index - 1) % config.labels_per_page) % config.cols,
     ops |-> LabelOps(request.chemicals[chemical_index].ghs_data,
                      request.label_height, request.chars_per_line)]

\* the label placed in its grid cell
PlacedLabel(chemical_index, label_index, config) ==
    [chemical |-> chemical_index,
     label_index |-> label_index,
     row |-> (label_index % config.labels_per_page) \div config.cols,
     col |-> (label_index % config.labels_per_page) % config.cols,
     ops |-> LabelOps(request.chemicals[chemical_index].ghs_data,
                      request.label_height, request.chars_per_line)]

\* label_index += 1, then showPage() when the page is full and the index is
\* below len(request.chemical_ids)
CanvasAfterLabel(placed, config) ==
    IF /\ (canvas.label_index + 1) % config.labels_per_page = 0
       /\ canvas.label_index + 1 < Len(request.chemicals)
    THEN [canvas EXCEPT !.next = @ + 1, !.label_index = @ + 1,
                        !.pages = Append(@, Append(canvas.page, placed)),
                        !.page = << >>]
    ELSE [canvas EXCEPT !.next = @ + 1, !.label_index = @ + 1,
                        !.page = Append(@, placed)]

DrawLabel ==
    /\ Drawing
    /\ request.chemicals[canvas.next].kind = "label"
    /\ canvas' = CanvasAfterLabel(
                     PlacedLabel(canvas.next, canvas.label_index,
                                 LayoutConfig(request.label_size)),
                     LayoutConfig(request.label_size))
    /\ UNCHANGED << ghs_data, ret, request, store >>

\* after the loop: p.showPage(); p.save()
SavePdf ==
    /\ ~canvas.saved
    /\ canvas.next > Len(request.chemicals)
    /\ canvas' = [canvas EXCEPT !.pages = Append(@, canvas.page),
                                !.page = << >>, !.saved = TRUE]
    /\ UNCHANGED << ghs_data, ret, request, store >>

NextPrint ==
    \/ SkipChemical
    \/ DrawLabel
    \/ SavePdf

PrintSpec == InitPrint /\ [][NextPrint]_vars

\* ------------------------------------------------------------------------
\* bulk_print_pdf over longer id lists: pages and grid cells. The labels are
\* all the same plain one, the ids vary in what the store holds for them.
\* ------------------------------------------------------------------------

\* most chemical ids in a request when pages are counted
MaxPageChemicals == 6

PageChemicalPool ==
    { [kind |-> "none"], [kind |-> "no_ghs_data"],
      [kind |-> "label",
       ghs_data |-> [product_identifier |-> "Water",
                     signal_word |-> "None",
                     hazard_statements |-> << >>,
                     precautionary_statements |-> << >>,
                     pictograms |-> << >>,
                     supplier_info |-> "" ]] }

\* one label per page, four per page, and a name without preset (the grid of
\* avery_5163, ten per page)
PageLabelSizeInputs == { "letter_full", "ghs_4x4", "custom" }

InitPages ==
    /\ request \in [chemicals : SeqsUpTo(PageChemicalPool, MaxPageChemicals) \ { << >> },
                    label_size : PageLabelSizeInputs,
                    label_height : { 4000 },
                    chars_per_line : { 45 }]
    /\ canvas = [next |-> 1, label_index |-> 0, pages |-> << >>, page |-> << >>,
                 saved |-> FALSE]
    /\ ghs_data = [product_identifier |-> "", signal_word |-> "None",
                   hazard_statements |-> << >>, precautionary_statements |-> << >>,
                   pictograms |-> << >>]
    /\ ret = NoReturn
    /\ store = NoStore

PageSpec == InitPages /\ [][NextPrint]_vars

\* ------------------------------------------------------------------------
\* bulk_print_pdf: the scale factor and the pictogram column of one label.
\* Lengths of the request are in 1/1000 inch, the scale in thousandths.
\* ------------------------------------------------------------------------

\* floor(sqrt(n)); no scale of a label up to 11in x 8.5in passes 4000
ScaleSearchRange == 0..4000

ISqrt(n) == CHOOSE root \in ScaleSearchRange : root * root <= n /\ (root + 1) * (root + 1) > n

Min(a, b) == IF a <= b THEN a ELSE b

Max(a, b) == IF a >= b THEN a ELSE b

\* base_height = 2.0 * inch, base_width = 4.0 * inch;
\* scale = math.sqrt(height_factor * width_factor), here in thousandths,
\* rounded down: sqrt((h / 2000) * (w / 4000)) * 1000 = sqrt(h * w / 8)
RawScale(label_width, label_height) == ISqrt((label_height * label_width) \div 8)

\* scale = min(1.6, max(0.8, scale))
\* if is_full_page: scale = min(2.4, max(1.2, scale))
ScaleFactor(label_size, label_width, label_height) ==
    LET scale == Min(1600, Max(800, RawScale(label_width, label_height)))
    IN  IF label_size \in FullPageSizes
        THEN Min(2400, Max(1200, scale))
        ELSE scale

\* padding = 0.15 * inch; content_width = label_width - 2 * padding
content_padding == 150

\* pic_column_pct = 0.30 if label_height >= 3 * inch else 0.25, in twentieths
pic_column_pct(label_height) == IF label_height >= 3000 THEN 6 ELSE 5

\* the part of max_pic_size a pictogram takes when there are num_pics of them:
\* 1.0, 0.85, 0.70, 0.60, in twentieths
pic_shrink(num_pics) ==
    IF num_pics = 1 THEN 20
    ELSE IF num_pics = 2 THEN 17
    ELSE IF num_pics = 3 THEN 14
    ELSE 12

\* The heights of the pictogram column are in units of 1/8000 of 1/1000 inch,
\* in which every product below is a whole number.
\* max_pic_size = (pic_column_width * 0.85) / 1.414; pic_size = max_pic_size *
\* shrink; diamond_span = pic_size * 1.414: the factor 1.414 cancels, and
\* diamond_span = content_width * pct/20 * 17/20 * shrink/20
diamond_span(label_width, label_height, num_pics) ==
    (label_width - 2 * content_padding) * pic_column_pct(label_height) * 17
        * pic_shrink(num_pics)

\* top_margin = 0.15 * inch * scale; bottom_margin = 0.18 * inch * scale;
\* available_height = label_height - top_margin - bottom_margin
available_height(label_height, scale) == 8 * (label_height * 1000 - (150 + 180) * scale)

\* gap = 0.02 * inch * scale
pic_gap(scale) == 8 * 20 * scale

\* total_height = diamond_span if num_pics == 1
\*                else (num_pics - 1) * pic_spacing + diamond_span
total_height(label_width, label_height, num_pics, scale) ==
    IF num_pics = 1
    THEN diamond_span(label_width, label_height, num_pics)
    ELSE (num_pics - 1) * (diamond_span(label_width, label_height, num_pics) + pic_gap(scale))
         + diamond_span(label_width, label_height, num_pics)

\* label_size, label_width and label_height of the request: the 1in x 2.625in,
\* 2in x 4in (the baseline), 4in x 4in, 4in x 8in and 11in x 8.5in labels and
\* their mixtures, as multi-up or as full-page format
GeometryLabelSizes == { "avery_5163", "ghs_4x4", "letter_full", "avery_5165" }

GeometryWidths == { 1000, 2625, 4000, 8000, 8500 }

GeometryHeights == { 1000, 2000, 3000, 4000, 11000 }

GeometryPictograms ==
    { SubSeq(<< "GHS02", "GHS05", "GHS06", "GHS07", "GHS09" >>, 1, n) : n \in 0..5 }

InitGeometry ==
    /\ request \in [label_size : GeometryLabelSizes,
                    label_width : GeometryWidths,
                    label_height : GeometryHeights]
    /\ ghs_data \in [product_identifier : { "Mixture 7" },
                     signal_word : { "Danger" },
                     hazard_statements : { << >> },
                     precautionary_statements : { << >> },
                     pictograms : GeometryPictograms]
    /\ canvas = NoCanvas
    /\ store = NoStore
    /\ ret = NoReturn

\* the scale of the label, computed at the top of the loop body
ComputeScale ==
    /\ ret = NoReturn
    /\ ret' = [op |-> "scale",
               scale |-> ScaleFactor(request.label_size, request.label_width,
                                     request.label_height)]
    /\ UNCHANGED << ghs_data, request, canvas, store >>

\* 3. pictograms: num_pics = min(len(pictograms), 4); if num_pics > 0 the
\* column is laid out and centred with start_offset = (available_height -
\* total_height) / 2
LayoutPictograms ==
    /\ ret.op = "scale"
    /\ Min(Len(ghs_data.pictograms), max_pictograms) > 0
    /\ LET num_pics == Min(Len(ghs_data.pictograms), max_pictograms)
           available == available_height(request.label_height, ret.scale)
           total == total_height(request.label_width, request.label_height,
                                 num_pics, ret.scale)
       IN  ret' = [op |-> "pictograms",
                   scale |-> ret.scale,
                   num_pics |-> num_pics,
                   available_height |-> available,
                   total_height |-> total,
                   start_offset |-> (available - total) \div 2]
    /\ UNCHANGED << ghs_data, request, canvas, store >>

NextGeometry ==
    \/ ComputeScale
    \/ LayoutPictograms

GeometrySpec == InitGeometry /\ [][NextGeometry]_vars

\* ------------------------------------------------------------------------
\* validate_sds_age: date parsing (datetime.strptime over date_formats, then
\* the year fallback) and the age against the wall clock
\* ------------------------------------------------------------------------

DigitValue == [c \in DigitChars |-> (CHOOSE i \in 1..10 : CharAt(Digits, i) = c) - 1]

AllDigits(s) == s # "" /\ \A i \in 1..Len(s) : IsDigit(CharAt(s, i))

\* int(s) for a string of digits
RECURSIVE StrToNat(_)
StrToNat(s) ==
    IF s = "" THEN 0
    ELSE 10 * StrToNat(SubSeq(s, 1, Len(s) - 1)) + DigitValue[CharAt(s, Len(s))]

\* str(n) for a natural number
RECURSIVE NatToStr(_)
NatToStr(n) ==
    IF n < 10 THEN CharAt(Digits, n + 1)
    ELSE NatToStr(n \div 10) \o CharAt(Digits, (n % 10) + 1)

\* the parts of s between the occurrences of the one-character string c
RECURSIVE SplitOn(_, _)
SplitOn(s, c) ==
    LET k == FindChar(s, c)
    IN  IF k = 0 THEN << s >>
        ELSE << SubSeq(s, 1, k - 1) >> \o SplitOn(SubSeq(s, k + 1, Len(s)), c)

\* index of the first white-space character of s, Len(s) + 1 if none
FirstSpace(s) ==
    IF \E i \in 1..Len(s) : IsSpace(CharAt(s, i))
    THEN CHOOSE i \in 1..Len(s) :
            /\ IsSpace(CharAt(s, i))
            /\ \A j \in 1..(i - 1) : ~IsSpace(CharAt(s, j))
    ELSE Len(s) + 1

\* the parts of s between runs of white space (a blank in a strptime format
\* matches \s+)
RECURSIVE Words(_)
Words(s) ==
    IF LStrip(s) = "" THEN << >>
    ELSE << SubSeq(LStrip(s), 1, FirstSpace(LStrip(s)) - 1) >>
         \o Words(SubSeq(LStrip(s), FirstSpace(LStrip(s)), Len(LStrip(s))))

\* %Y: \d\d\d\d
IsYearToken(t) == Len(t) = 4 /\ AllDigits(t)

\* %m: 1[0-2]|0[1-9]|[1-9]
IsMonthToken(t) == Len(t) \in 1..2 /\ AllDigits(t) /\ StrToNat(t) \in 1..12

\* %d: 3[0-1]|[1-2]\d|0[1-9]|[1-9]| [1-9]
IsDayToken(t) ==
    \/ Len(t) \in 1..2 /\ AllDigits(t) /\ StrToNat(t) \in 1..31
    \/ Len(t) = 2 /\ CharAt(t, 1) = " " /\ IsDigit(CharAt(t, 2)) /\ CharAt(t, 2) # "0"

DayValue(t) == StrToNat(LStrip(t))

\* %B: the full month names, in any case
MonthNames ==
    << "january", "february", "march", "april", "may", "june", "july",
       "august", "september", "october", "november", "december" >>

IsMonthName(t) == \E i \in 1..12 : MonthNames[i] = StrLower(t)

MonthOfName(t) == CHOOSE i \in 1..12 : MonthNames[i] = StrLower(t)

IsLeapYear(year) == year % 4 = 0 /\ (year % 100 # 0 \/ year % 400 = 0)

DaysInMonth(year, month) ==
    IF month = 2 THEN (IF IsLeapYear(year) THEN 29 ELSE 28)
    ELSE IF month \in { 4, 6, 9, 11 } THEN 30
    ELSE 31

\* no date: strptime or datetime raised ValueError, or nothing was parsed
NoDate == [year |-> 0, month |-> 0, day |-> 0]

\* datetime(year, month, day), NoDate where it raises ValueError
MakeDate(year, month, day) ==
    IF year >= 1 /\ month \in 1..12 /\ day \in 1..DaysInMonth(year, month)
    THEN [year |-> year, month |-> month, day |-> day]
    ELSE NoDate

\* strptime with a format of three numeric fields around one separator; order
\* tells which part is the year, the month and the day
NumericDate(s, separator, order) ==
    LET parts == SplitOn(s, separator)
    IN  IF /\ Len(parts) = 3
           /\ IsYearToken(parts[order.year])
           /\ IsMonthToken(parts[order.month])
           /\ IsDayToken(parts[order.day])
        THEN MakeDate(StrToNat(parts[order.year]), StrToNat(parts[order.month]),
                      DayValue(parts[order.day]))
        ELSE NoDate

\* "%B %d, %Y"
MonthDayYear(s) ==
    LET words == Words(s)
    IN  IF /\ Len(words) = 3
           /\ IsMonthName(words[1])
           /\ Len(words[2]) >= 2
           /\ CharAt(words[2], Len(words[2])) = ","
           /\ IsDayToken(SubSeq(words[2], 1, Len(words[2]) - 1))
           /\ IsYearToken(words[3])
        THEN MakeDate(StrToNat(words[3]), MonthOfName(words[1]),
                      DayValue(SubSeq(words[2], 1, Len(words[2]) - 1)))
        ELSE NoDate

\* "%d %B %Y"
DayMonthYear(s) ==
    LET words == Words(s)
    IN  IF /\ Len(words) = 3
           /\ IsDayToken(words[1])
           /\ IsMonthName(words[2])
           /\ IsYearToken(words[3])
        THEN MakeDate(StrToNat(words[3]), MonthOfName(words[2]), DayValue(words[1]))
        ELSE NoDate

\* datetime.strptime(s, fmt) for the six formats, NoDate for ValueError
date_formats(s) ==
    << NumericDate(s, "-", [year |-> 1, month |-> 2, day |-> 3]),
       NumericDate(s, "/", [year |-> 3, month |-> 1, day |-> 2]),
       NumericDate(s, "/", [year |-> 3, month |-> 2, day |-> 1]),
       MonthDayYear(s),
       DayMonthYear(s),
       NumericDate(s, "/", [year |-> 1, month |-> 2, day |-> 3]) >>

\* for fmt in date_formats: the first format that parses
FirstParsed(results) ==
    IF \E i \in 1..Len(results) : results[i] # NoDate
    THEN results[CHOOSE i \in 1..Len(results) :
                    /\ results[i] # NoDate
                    /\ \A j \in 1..(i - 1) : results[j] = NoDate]
    ELSE NoDate

\* \w
IsWordChar(c) == IsDigit(c) \/ c \in LowerCaseChars \/ c \in UpperCaseChars \/ c = "_"

\* whether \b(20\d{2})\b matches at position i of s
YearMatchAt(s, i) ==
    /\ i + 3 <= Len(s)
    /\ SubSeq(s, i, i + 1) = "20"
    /\ IsDigit(CharAt(s, i + 2)) /\ IsDigit(CharAt(s, i + 3))
    /\ i = 1 \/ ~IsWordChar(CharAt(s, i - 1))
    /\ i + 3 = Len(s) \/ ~IsWordChar(CharAt(s, i + 4))

\* where re.search finds its first match, 0 if there is none
FirstYearMatch(s) ==
    IF \E i \in 1..Len(s) : YearMatchAt(s, i)
    THEN CHOOSE i \in 1..Len(s) :
            /\ YearMatchAt(s, i)
            /\ \A j \in 1..(i - 1) : ~YearMatchAt(s, j)
    ELSE 0

\* re.search(r'\b(20\d{2})\b', sds_date): group(1) of the first match, None
\* if there is none
YearMatch(s) ==
    IF FirstYearMatch(s) = 0 THEN None
    ELSE SubSeq(s, FirstYearMatch(s), FirstYearMatch(s) + 3)

\* parsed_date: the formats on the stripped text, else 15 June of the year
\* found in the text, else NoDate
ParsedDate(sds_date) ==
    LET parsed == FirstParsed(date_formats(StrStrip(sds_date)))
    IN  IF parsed # NoDate THEN parsed
        ELSE IF YearMatch(sds_date) # None
             THEN MakeDate(StrToNat(YearMatch(sds_date)), 6, 15)
             ELSE NoDate

\* date.toordinal(): days from 0001-01-01, proleptic Gregorian
DaysBeforeYear(year) ==
    365 * (year - 1) + (year - 1) \div 4 - (year - 1) \div 100 + (year - 1) \div 400

RECURSIVE DaysBeforeMonth(_, _)
DaysBeforeMonth(year, month) ==
    IF month = 1 THEN 0
    ELSE DaysBeforeMonth(year, month - 1) + DaysInMonth(year, month - 1)

Ordinal(date) == DaysBeforeYear(date.year) + DaysBeforeMonth(date.year, date.month) + date.day

\* (datetime.now() - parsed_date).days: the parsed date is a midnight, so the
\* whole days are the difference of the two dates
ElapsedDays(now, parsed_date) == Ordinal(now) - Ordinal(parsed_date)

\* years_old > 5 with years_old = days / 365 (a year without its quarter day)
IsOutdated_PlainYears(days) == days > 5 * 365

\* years_old = days / 365.25; is_outdated = years_old > 5
IsOutdated(days) == 4 * days > 5 * 1461

\* years_old to one decimal, in tenths: round(days / 365.25, 1) and {:.1f};
\* 80 * days is never an odd multiple of 1461, so no tie is rounded
YearsOldTenths(days) == (80 * days + 1461) \div 2922

\* f"SDS is {years_old:.1f} years old. Review recommended."
AgeWarning(days) ==
    "SDS is " \o NatToStr(YearsOldTenths(days) \div 10) \o "."
    \o NatToStr(YearsOldTenths(days) % 10) \o " years old. Review recommended."

NotOutdated == [is_outdated |-> FALSE, warning |-> None, years_old |-> None]

validate_sds_age(sds_date, now) ==
    IF sds_date = None \/ sds_date = "" THEN NotOutdated
    ELSE IF ParsedDate(sds_date) = NoDate THEN NotOutdated
    ELSE LET days == ElapsedDays(now, ParsedDate(sds_date))
         IN  [is_outdated |-> IsOutdated(days),
              warning |-> IF IsOutdated(days) THEN AgeWarning(days) ELSE None,
              years_old |-> YearsOldTenths(days)]

\* sds_date as the parser or a client supplies it
SdsDateInputs ==
    { None, "", "n/a", "2015-06-12", "06/12/2015", "13/04/2015", "6/ 5/2015",
      "June 12, 2015", "12 june 2015", "2015/06/12", " 2021-03-01 ",
      "2021-06-15", "2024-02-29", "2023-02-29", "2021-02-30", "1998-03-01",
      "2029-01-01", "2021", "2020", "1998", "1985", "Revised 2019", "x2021",
      "Rev. 3 of 12.06.2015" }

\* datetime.now(), as a date
NowYears == 2024..2028

NowDays == { << 1, 1 >>, << 2, 28 >>, << 3, 1 >>, << 3, 2 >>, << 6, 15 >>,
             << 6, 16 >>, << 12, 31 >> }

InitSdsAge ==
    /\ request \in [sds_date : SdsDateInputs,
                    now : { [year |-> y, month |-> md[1], day |-> md[2]] :
                                y \in NowYears, md \in NowDays }]
    /\ ghs_data = [product_identifier |-> "", signal_word |-> "None",
                   hazard_statements |-> << >>, precautionary_statements |-> << >>,
                   pictograms |-> << >>]
    /\ canvas = NoCanvas
    /\ store = NoStore
    /\ ret = NoReturn

ValidateSdsAge ==
    /\ ret = NoReturn
    /\ ret' = [op |-> "validate_sds_age",
               result |-> validate_sds_age(request.sds_date, request.now)]
    /\ UNCHANGED << ghs_data, request, canvas, store >>

NextSdsAge == ValidateSdsAge

SdsAgeSpec == InitSdsAge /\ [][NextSdsAge]_vars

\* ------------------------------------------------------------------------
\* Subscriptions: get_user_subscription and POST /subscription/fix-past-due
\* ------------------------------------------------------------------------

\* get_user_subscription returned None
NoSubscription == [status |-> "none", ends_at |-> "none", lemon_variant_id |-> None]

\* the statuses the billing provider reports (webhooks.py)
SubscriptionStatuses ==
    { "on_trial", "active", "paused", "past_due", "unpaid", "cancelled", "expired" }

\* get_user_subscription: the single active or on_trial row (.single() raises
\* for no row and for several), else the most recently updated cancelled row
\* if its ends_at lies in the future, else None. The rows are kept in the
\* order of updated_at, latest first.
get_user_subscription(subscriptions) ==
    LET live == SelectSeq(subscriptions,
                          LAMBDA row : row.status \in { "active", "on_trial" })
        cancelled == SelectSeq(subscriptions, LAMBDA row : row.status = "cancelled")
    IN  IF Len(live) = 1 THEN live[1]
        ELSE IF Len(cancelled) >= 1 /\ cancelled[1].ends_at = "future"
             THEN cancelled[1]
             ELSE NoSubscription

\* most subscription rows of one user
MaxSubscriptions == 2

\* ends_at of a row: not set, before or after the current time
SubscriptionRowPool ==
    [status : SubscriptionStatuses \ { "cancelled" }, ends_at : { "none" },
     lemon_variant_id : { "1283692" }]
    \cup [status : { "cancelled" }, ends_at : { "none", "past", "future" },
          lemon_variant_id : { "1283692" }]

\* what the billing provider answers to the cancel request (0: the request
\* raised requests.RequestException)
ProviderAnswers == { 200, 204, 500, 0 }

InitFixPastDue ==
    /\ store \in [subscriptions : SeqsUpTo(SubscriptionRowPool, MaxSubscriptions),
                  audit_logs : { 0 }]
    /\ request \in [api_key : BOOLEAN, provider : ProviderAnswers]
    /\ ghs_data = [product_identifier |-> "", signal_word |-> "None",
                   hazard_statements |-> << >>, precautionary_statements |-> << >>,
                   pictograms |-> << >>]
    /\ canvas = NoCanvas
    /\ ret = NoReturn

\* the subscription_updated webhook: the provider reports a new status of a row
SubscriptionUpdated ==
    /\ ret = NoReturn
    /\ \E i \in 1..Len(store.subscriptions) :
       \E status \in SubscriptionStatuses \ { "cancelled" } :
           /\ store.subscriptions[i].status # status
           /\ store' = [store EXCEPT !.subscriptions[i].status = status,
                                     !.subscriptions[i].ends_at = "none"]
    /\ UNCHANGED << ghs_data, ret, request, canvas >>

\* POST /subscription/fix-past-due
fix_past_due_subscription(subscription, api_key, provider) ==
    IF subscription = NoSubscription
    THEN [op |-> "fix_past_due_subscription", status_code |-> 404, cancel_sent |-> FALSE]
    ELSE IF subscription.status # "past_due"
    THEN [op |-> "fix_past_due_subscription", status_code |-> 400, cancel_sent |-> FALSE]
    ELSE IF ~api_key
    THEN [op |-> "fix_past_due_subscription", status_code |-> 500, cancel_sent |-> FALSE]
    ELSE IF provider \in { 200, 204 }
    THEN [op |-> "fix_past_due_subscription", status_code |-> 200, cancel_sent |-> TRUE]
    ELSE [op |-> "fix_past_due_subscription", status_code |-> 500, cancel_sent |-> TRUE]

FixPastDueSubscription ==
    /\ ret = NoReturn
    /\ ret' = fix_past_due_subscription(get_user_subscription(store.subscriptions),
                                        request.api_key, request.provider)
    /\ UNCHANGED << ghs_data, request, canvas, store >>

NextFixPastDue ==
    \/ SubscriptionUpdated
    \/ FixPastDueSubscription

FixPastDueSpec == InitFixPastDue /\ [][NextFixPastDue]_vars

\* ------------------------------------------------------------------------
\* POST /parse-sds and POST /parse-sds/validated: the monthly usage limit.
\* Each call reads the subscription and the month's count, then (after the
\* awaits, so that other calls run in between) parses and optionally saves.
\* ------------------------------------------------------------------------

\* limits: (soft_limit, hard_limit) per lemon_variant_id; a hard_limit of None
\* is written 0 (both are falsy in "if hard_limit and ...")
UsageLimits ==
       None :> [soft_limit |-> 2, hard_limit |-> 5]
    @@ "1283692" :> [soft_limit |-> 200, hard_limit |-> 0]
    @@ "1254589" :> [soft_limit |-> 208, hard_limit |-> 0]
    @@ "1283714" :> [soft_limit |-> 15000, hard_limit |-> 0]
    @@ "1283715" :> [soft_limit |-> 16666, hard_limit |-> 0]

\* variant_id = subscription.get("lemon_variant_id") if subscription else None
\* soft_limit, hard_limit = limits.get(variant_id, (2, 5))
LimitsOf(subscription) ==
    LET variant_id == IF subscription = NoSubscription THEN None
                      ELSE subscription.lemon_variant_id
    IN  IF variant_id \in DOMAIN UsageLimits THEN UsageLimits[variant_id]
        ELSE [soft_limit |-> 2, hard_limit |-> 5]

\* if hard_limit and monthly_count >= hard_limit: raise HTTPException(403)
OverHardLimit(subscription, monthly_count) ==
    /\ LimitsOf(subscription).hard_limit # 0
    /\ monthly_count >= LimitsOf(subscription).hard_limit

\* count_monthly_uploads: the audit_logs rows of the user with action
\* chemical.created in the current month
count_monthly_uploads == store.audit_logs

\* most upload requests of the user in the month
MaxUploadRequests == 7

\* most requests of the user served at the same time
MaxConcurrentUploads == 2

UploadEndpoints == { "/parse-sds", "/parse-sds/validated" }

\* the subscriptions of the user: none (free tier), a Pro monthly one, one of
\* a variant the limits do not list, and one that was cancelled and has ended
UploadSubscriptionInputs ==
    { << >>,
      << [status |-> "active", ends_at |-> "none", lemon_variant_id |-> "1283692"] >>,
      << [status |-> "active", ends_at |-> "none", lemon_variant_id |-> "999999"] >>,
      << [status |-> "cancelled", ends_at |-> "past", lemon_variant_id |-> "1283692"] >> }

NoUploads == [op |-> "uploads", processed |-> 0, rejected |-> 0, failed |-> 0]

InitUploads ==
    /\ store \in [subscriptions : UploadSubscriptionInputs, audit_logs : { 0 }]
    /\ request = [received |-> 0, in_flight |-> << >>]
    /\ ret = NoUploads
    /\ ghs_data = [product_identifier |-> "", signal_word |-> "None",
                   hazard_statements |-> << >>, precautionary_statements |-> << >>,
                   pictograms |-> << >>]
    /\ canvas = NoCanvas

\* s without its i-th element
RemoveAt(seq, i) == SubSeq(seq, 1, i - 1) \o SubSeq(seq, i + 1, Len(seq))

\* a request with a .pdf file arrives
ReceiveUpload ==
    /\ request.received < MaxUploadRequests
    /\ Len(request.in_flight) < MaxConcurrentUploads
    /\ \E endpoint \in UploadEndpoints, save_to_vault \in BOOLEAN :
           request' = [received |-> request.received + 1,
                       in_flight |-> Append(request.in_flight,
                                            [endpoint |-> endpoint,
                                             save_to_vault |-> save_to_vault,
                                             pc |-> "received"])]
    /\ UNCHANGED << ghs_data, ret, canvas, store >>

\* Check usage limits: 403 at the hard limit, else the call goes on
CheckUsageLimit ==
    \E i \in 1..Len(request.in_flight) :
        /\ request.in_flight[i].pc = "received"
        /\ IF OverHardLimit(get_user_subscription(store.subscriptions),
                            count_monthly_uploads)
           THEN /\ request' = [request EXCEPT !.in_flight = RemoveAt(@, i)]
                /\ ret' = [ret EXCEPT !.rejected = @ + 1]
           ELSE /\ request' = [request EXCEPT !.in_flight[i].pc = "checked"]
                /\ ret' = ret
        /\ UNCHANGED << ghs_data, canvas, store >>

\* the text is extracted and parsed; with save_to_vault the chemical is
\* saved, and POST /parse-sds then logs the audit event chemical.created
ParseUpload ==
    \E i \in 1..Len(request.in_flight) :
        /\ request.in_flight[i].pc = "checked"
        /\ request' = [request EXCEPT !.in_flight = RemoveAt(@, i)]
        /\ ret' = [ret EXCEPT !.processed = @ + 1]
        /\ store' = IF /\ request.in_flight[i].save_to_vault
                       /\ request.in_flight[i].endpoint = "/parse-sds"
                    THEN [store EXCEPT !.audit_logs = @ + 1]
                    ELSE store
        /\ UNCHANGED << ghs_data, canvas >>

\* no text could be extracted from the PDF: 500, nothing parsed or saved
RejectUnreadablePdf ==
    \E i \in 1..Len(request.in_flight) :
        /\ request.in_flight[i].pc = "checked"
        /\ request' = [request EXCEPT !.in_flight = RemoveAt(@, i)]
        /\ ret' = [ret EXCEPT !.failed = @ + 1]
        /\ UNCHANGED << ghs_data, canvas, store >>

NextUploads ==
    \/ ReceiveUpload
    \/ CheckUsageLimit
    \/ ParseUpload
    \/ RejectUnreadablePdf

UploadSpec == InitUploads /\ [][NextUploads]_vars

\* ------------------------------------------------------------------------
\* Properties
\* ------------------------------------------------------------------------

Called(op) == ret.op = op

\* the critical hazard codes
CriticalCodes == { "H300", "H310", "H330", "H314", "H318", "H340", "H350", "H360", "H370" }

\* the hazard codes of a statement list
HazardCodes(stmts) == { MatchHCode(stmts[i]) : i \in 1..Len(stmts) } \ { None }

\* the signal word a statement list requires
RequiredSignalWord(stmts) ==
    IF HazardCodes(stmts) \cap CriticalCodes # {} THEN "Danger" ELSE "Warning"

IssuesOfSeverity(issues, severities) ==
    { i \in 1..Len(issues) : issues[i].severity \in severities }

AnyContains(stmts, sub) == \E i \in 1..Len(stmts) : Contains(stmts[i], sub)

\* the code prefix of a supplied statement: before the first colon, trimmed,
\* upper-cased
CodePrefix(stmt) == StrUpper(StrStrip(SplitColon(stmt)[1]))

\* the text a supplied statement carries after its first colon, trimmed
SuppliedText(stmt) ==
    IF Len(SplitColon(stmt)) > 1 THEN StrStrip(SplitColon(stmt)[2]) ELSE ""

\* whether a supplied statement calls for review: its code is absent from the
\* Registry, or its text is less than 0.9 similar to the canonical text
CallsForReview ==
    [stmt \in HazardStatementPool |->
        \/ CodePrefix(stmt) \notin DOMAIN GHS_H_CODES
        \/ RatioBelowThreshold(Ratio(StrLower(GHS_H_CODES[CodePrefix(stmt)]),
                                     StrLower(SuppliedText(stmt))))]

\* C1: is_valid is true exactly when no issue has severity error or critical
\* (so a critical SIGNAL_WORD issue makes the label invalid).
C1_ValidIffNoErrorOrCritical ==
    Called("validate_ghs_label") =>
        (ret.result.is_valid
            <=> IssuesOfSeverity(ret.result.issues, { "error", "critical" }) = {})

\* C2: a signal word differing from the required one gives signal_word_valid =
\* false, the required word as suggestion and exactly one critical issue, coded
\* SIGNAL_WORD and carrying the replacement; an equal one gives
\* signal_word_valid = true and no critical issue.
C2_SignalWordMismatchIsCritical ==
    Called("validate_ghs_label") =>
        LET r == ret.result
            required == RequiredSignalWord(r.validated_hazard_statements)
            criticals == IssuesOfSeverity(r.issues, { "critical" })
        IN  IF ghs_data.signal_word # required
            THEN /\ ~r.signal_word_valid
                 /\ r.suggested_signal_word = required
                 /\ Cardinality(criticals) = 1
                 /\ \A i \in criticals :
                        /\ r.issues[i].code = "SIGNAL_WORD"
                        /\ r.issues[i].suggestion = "Change signal word to " \o required
            ELSE /\ r.signal_word_valid
                 /\ criticals = {}

C2_Witness ==
    /\ Called("validate_ghs_label")
    /\ ghs_data.signal_word = "Warning"
    /\ ghs_data.hazard_statements =
          << "H314: Causes severe skin burns and eye damage", "H332: Harmful if inhaled" >>
    /\ ~ret.result.signal_word_valid
    /\ ret.result.suggested_signal_word = "Danger"
    /\ Cardinality(IssuesOfSeverity(ret.result.issues, { "critical" })) = 1

\* C3: the suggested signal word is Danger when a validated hazard code is in
\* the critical set and Warning when none is, the empty list included.
C3_SuggestedSignalWord ==
    Called("validate_ghs_label") =>
        ret.result.suggested_signal_word =
            (IF \E c \in HazardCodes(ret.result.validated_hazard_statements) :
                    c \in CriticalCodes
             THEN "Danger" ELSE "Warning")

C3_Witness ==
    /\ Called("validate_ghs_label")
    /\ ghs_data.hazard_statements = << " h318 : causes serious eye damage." >>
    /\ ret.result.validated_hazard_statements = << "H318: Causes serious eye damage" >>
    /\ ret.result.suggested_signal_word = "Danger"

\* C4: the label returned by parse_sds_with_ai and by parse_sds_with_validation
\* carries the signal word its hazard codes require: a wrong extracted word is
\* overwritten, a right one is kept.
C4_ParsedSignalWordIsRequired ==
    (Called("parse_sds_with_ai") \/ Called("parse_sds_with_validation")) =>
        LET required == RequiredSignalWord(ret.label.hazard_statements)
        IN  /\ ret.label.signal_word = required
            /\ ghs_data.signal_word = required => ret.label.signal_word = ghs_data.signal_word

C4_Witness ==
    /\ Called("parse_sds_with_ai")
    /\ ghs_data.signal_word = "None"
    /\ "H314" \in HazardCodes(ret.label.hazard_statements)
    /\ ret.label.signal_word = "Danger"

\* C5: no outcome holds an error-severity issue while is_valid is true.
C5_NoErrorIssueWhenValid ==
    Called("validate_ghs_label") =>
        ~ (/\ IssuesOfSeverity(ret.result.issues, { "error" }) # {}
           /\ ret.result.is_valid)

C5_Witness ==
    /\ Called("validate_ghs_label")
    /\ IssuesOfSeverity(ret.result.issues, { "error" }) # {}
    /\ Len(ret.result.issues) = 3
    /\ ~ret.result.is_valid

\* C6: needs_review is true exactly when is_valid is false or the statement
\* validator flagged review.
C6_NeedsReviewIffInvalidOrFlagged ==
    Called("validate_ghs_label") =>
        (ret.result.needs_review
            <=> \/ ~ret.result.is_valid
                \/ \E i \in 1..Len(ghs_data.hazard_statements) :
                       CallsForReview[ghs_data.hazard_statements[i]])

\* C7: H314 among the validated hazard codes with no precautionary statement
\* containing P280 gives an error issue for the pairing, P280 in
\* missing_p_codes and is_valid = false; otherwise missing_p_codes is empty and
\* there is no error issue.
C7_H314RequiresP280 ==
    Called("validate_ghs_label") =>
        LET r == ret.result
            errors == IssuesOfSeverity(r.issues, { "error" })
        IN  IF /\ "H314" \in HazardCodes(r.validated_hazard_statements)
               /\ ~AnyContains(ghs_data.precautionary_statements, "P280")
            THEN /\ \E i \in errors : r.issues[i].code = "H314"
                 /\ InList("P280", r.missing_p_codes)
                 /\ ~r.is_valid
            ELSE /\ r.missing_p_codes = << >>
                 /\ errors = {}

C7_Witness ==
    /\ Called("validate_ghs_label")
    /\ "H314" \in HazardCodes(ret.result.validated_hazard_statements)
    /\ ghs_data.precautionary_statements = << "P264: Wash hands thoroughly after handling." >>
    /\ ret.result.missing_p_codes = << "P280" >>
    /\ ~ret.result.is_valid

\* C8: validate_hazard_statements returns as many entries as it was given, and
\* entry i of the output comes from entry i of the input: it is the input
\* entry itself or a statement of the input entry's code.
C8_StatementsKeptInOrder ==
    Called("validate_hazard_statements") =>
        /\ Len(ret.validated) = Len(ghs_data.hazard_statements)
        /\ \A i \in 1..Len(ghs_data.hazard_statements) :
              LET code == CodePrefix(ghs_data.hazard_statements[i])
              IN  \/ ret.validated[i] = ghs_data.hazard_statements[i]
                  \/ SubSeq(ret.validated[i], 1, Len(code) + 1) = code \o ":"

C8_Witness ==
    /\ Called("validate_hazard_statements")
    /\ ghs_data.hazard_statements = << "H999: Unknown hazard", "H314: Corrosive" >>
    /\ ret.validated =
          << "H999: Unknown hazard", "H314: Causes severe skin burns and eye damage" >>

\* C9: an entry whose code prefix is a Registry code comes out as
\* "CODE: canonical text" whatever its text was; any other entry comes out
\* unchanged.
C9_CanonicalTextOrVerbatim ==
    Called("validate_hazard_statements") =>
        \A i \in 1..Len(ghs_data.hazard_statements) :
            LET stmt == ghs_data.hazard_statements[i]
                code == CodePrefix(stmt)
            IN  /\ i <= Len(ret.validated)
                /\ ret.validated[i] =
                      (IF code \in DOMAIN GHS_H_CODES
                       THEN code \o ": " \o GHS_H_CODES[code]
                       ELSE stmt)

C9_Witness ==
    /\ Called("validate_hazard_statements")
    /\ ghs_data.hazard_statements = << "H350x: cancer risk", " h318 : causes serious eye damage." >>
    /\ ret.validated = << "H350x: cancer risk", "H318: Causes serious eye damage" >>

IsCanonical(stmt, registry) ==
    \E code \in DOMAIN registry : stmt = code \o ": " \o registry[code]

AllCanonical(stmts, registry) ==
    \A i \in 1..Len(stmts) : IsCanonical(stmts[i], registry)

\* C11: in every outcome of validate_ghs_label with needs_review false, every
\* validated hazard statement and every validated precautionary statement has
\* a Registry code and carries that code's canonical text.
C11_ValidatedStatementsAreCanonical ==
    (Called("validate_ghs_label") /\ ~ret.result.needs_review) =>
        /\ AllCanonical(ret.result.validated_hazard_statements, GHS_H_CODES)
        /\ AllCanonical(ret.result.validated_precautionary_statements, GHS_P_CODES)

\* the elements of a list
Elements(list) == { list[i] : i \in 1..Len(list) }

\* the hazard codes supplied to the call
SuppliedCodes == HazardCodes(ghs_data.hazard_statements)

\* the supplied codes that imply a pictogram
CodesImplying(pictogram) ==
    SuppliedCodes \cap Elements(PICTOGRAM_H_CODE_MAP[pictogram])

Implied(pictogram) == CodesImplying(pictogram) # {}

\* the pictograms returned by suggest_pictograms_for_codes
Suggested == Elements(ret.pictograms)

IrritationCodes == { "H315", "H319" }

SkinEyeCorrosionCodes == { "H314", "H318" }

AcuteExposureCodes == { "H302", "H312", "H332", "H336" }

\* rule 1 and rule 3 leave GHS07 alone
Rule1And3KeepGHS07 ==
    /\ ~Implied("GHS06")
    /\ Implied("GHS08") => SuppliedCodes \cap AcuteExposureCodes # {}

\* C12 as stated: with GHS05 and GHS07 implied and rules 1 and 3 not removing
\* GHS07, GHS07 is dropped exactly when every supplied GHS07 code is H315 or
\* H319; otherwise GHS05 and GHS07 are both returned.
C12_DroppedIffOnlyIrritation ==
    (/\ Called("suggest_pictograms_for_codes")
     /\ Implied("GHS05") /\ Implied("GHS07")
     /\ Rule1And3KeepGHS07) =>
        /\ "GHS05" \in Suggested
        /\ "GHS07" \notin Suggested <=> CodesImplying("GHS07") \subseteq IrritationCodes

\* C12 (amended): with GHS05 and GHS07 implied and rules 1 and 3 not removing
\* GHS07, GHS07 is dropped exactly when every supplied GHS07 code is H315 or
\* H319 and the input contains a skin/eye corrosion code (H314 or H318);
\* otherwise GHS05 and GHS07 are both returned.
C12_DroppedIffOnlyIrritationUnderSkinEyeCorrosion ==
    (/\ Called("suggest_pictograms_for_codes")
     /\ Implied("GHS05") /\ Implied("GHS07")
     /\ Rule1And3KeepGHS07) =>
        /\ "GHS05" \in Suggested
        /\ "GHS07" \notin Suggested
              <=> /\ CodesImplying("GHS07") \subseteq IrritationCodes
                  /\ SuppliedCodes \cap SkinEyeCorrosionCodes # {}

C12_Witness ==
    /\ Called("suggest_pictograms_for_codes")
    /\ ghs_data.hazard_statements = << "H290", "H315", "h319" >>
    /\ ret.pictograms = << "GHS05", "GHS07" >>

\* the pictograms whose code list holds the code
PictogramsOf(code) ==
    { pictogram \in DOMAIN PICTOGRAM_H_CODE_MAP :
        InList(code, PICTOGRAM_H_CODE_MAP[pictogram]) }

\* GHS07 is implied by the supplied codes and absent from the output
GHS07Suppressed ==
    /\ Called("suggest_pictograms_for_codes")
    /\ Implied("GHS07")
    /\ "GHS07" \notin Suggested

\* C13 as stated: if GHS07 is implied by the set but absent from the output,
\* the set contains no hazard code whose only pictogram mapping is GHS07.
C13_SuppressedOnlyWithoutSoleGHS07Code ==
    GHS07Suppressed =>
        ~ \E code \in SuppliedCodes : PictogramsOf(code) = { "GHS07" }

\* C13 (amended): if GHS07 is implied by the set but absent from the output,
\* then GHS05, GHS06 or GHS08 is in the output, and the set contains none of
\* the acute-exposure codes H302, H312, H332, H336 unless it contains a code
\* mapped to GHS06.
C13_SuppressedOnlyUnderDominatingPictogram ==
    GHS07Suppressed =>
        /\ Suggested \cap { "GHS05", "GHS06", "GHS08" } # {}
        /\ Implied("GHS06") \/ SuppliedCodes \cap AcuteExposureCodes = {}

C13_Witness ==
    /\ GHS07Suppressed
    /\ ghs_data.hazard_statements = << "H334", "H317", "H335" >>
    /\ ret.pictograms = << "GHS08" >>

\* C14: the output never contains GHS07 when the input contains a code mapped
\* to GHS06, and never contains GHS07 together with GHS08 unless the input
\* contains one of H302, H312, H332, H336; when GHS08 and GHS07 are implied,
\* GHS06 and GHS05 are not, and one of those four codes is present, GHS07 is
\* kept.
C14_GHS07UnderGHS06AndGHS08 ==
    Called("suggest_pictograms_for_codes") =>
        /\ Implied("GHS06") => "GHS07" \notin Suggested
        /\ { "GHS07", "GHS08" } \subseteq Suggested
              => SuppliedCodes \cap AcuteExposureCodes # {}
        /\ (/\ Implied("GHS08") /\ Implied("GHS07")
            /\ ~Implied("GHS06") /\ ~Implied("GHS05")
            /\ SuppliedCodes \cap AcuteExposureCodes # {})
              => "GHS07" \in Suggested

C14_Witness ==
    /\ Called("suggest_pictograms_for_codes")
    /\ ghs_data.hazard_statements = << "H334", "H332", "H317" >>
    /\ ret.pictograms = << "GHS07", "GHS08" >>

\* strictly ascending, hence without duplicates
IsAscending(list) ==
    \A i \in 1..(Len(list) - 1) : StrLess(list[i], list[i + 1])

\* C15: suggest_pictograms_for_codes returns a list without duplicates in
\* ascending order that depends only on the set of hazard codes supplied: the
\* list is the one returned for that set given once each, in ascending order.
C15_SortedAndSetDetermined ==
    Called("suggest_pictograms_for_codes") =>
        /\ IsAscending(ret.pictograms)
        /\ ret.pictograms = suggest_pictograms_for_codes(Sorted(SuppliedCodes))

C15_Witness ==
    /\ Called("suggest_pictograms_for_codes")
    /\ ghs_data.hazard_statements = << "H332", "H226", "H332" >>
    /\ ret.pictograms = << "GHS02", "GHS07" >>

EnvironmentPictogramCodes == { "H400", "H410", "H411", "H420" }

\* C16: GHS09 is in the output exactly when the input contains at least one
\* of H400, H410, H411, H420 (H412 and H413 alone never yield it).
C16_GHS09IffEnvironmentCode ==
    Called("suggest_pictograms_for_codes") =>
        ("GHS09" \in Suggested <=> SuppliedCodes \cap EnvironmentPictogramCodes # {})

C16_Witness ==
    /\ Called("suggest_pictograms_for_codes")
    /\ ghs_data.hazard_statements = << "H412", "H413" >>
    /\ ret.pictograms = << >>

\* the same request with another supplied pictogram list
WithOtherPictograms ==
    [ghs_data EXCEPT !.pictograms =
        CHOOSE other \in PictogramInputs : other # ghs_data.pictograms]

\* C17: the outcome of validate_ghs_label and the corrected label's pictograms
\* from parse_sds_with_ai and parse_sds_with_validation are the same for a run
\* that differs only in the supplied pictograms, and the corrected pictograms
\* are suggest_pictograms_for_codes of the (validated) hazard statements.
C17_SuppliedPictogramsIgnored ==
    /\ Called("validate_ghs_label") =>
          ret.result = validate_ghs_label(WithOtherPictograms.signal_word,
                           WithOtherPictograms.hazard_statements,
                           WithOtherPictograms.precautionary_statements,
                           WithOtherPictograms.pictograms)
    /\ Called("parse_sds_with_ai") =>
          /\ ret.label = parse_sds_with_ai(WithOtherPictograms)[1]
          /\ ret.label.pictograms =
                suggest_pictograms_for_codes(ret.label.hazard_statements)
    /\ Called("parse_sds_with_validation") =>
          /\ ret.label = parse_sds_with_validation(WithOtherPictograms).label
          /\ ret.label.pictograms =
                suggest_pictograms_for_codes(ret.validation.validated_hazard_statements)

NoDuplicates(list) ==
    \A i, j \in 1..Len(list) : list[i] = list[j] => i = j

\* C18: get_supplemental_hazards returns each supplemental statement at most
\* once, however many trigger phrases of the same code occur in the product
\* name; a name containing "bleach" yields exactly one EUH031 statement.
C18_SupplementalWithoutDuplicates ==
    Called("get_supplemental_hazards") =>
        /\ NoDuplicates(ret.supplemental)
        /\ Contains(StrLower(ghs_data.product_identifier), "bleach") =>
              ret.supplemental = << "EUH031: " \o EUH_CODES["EUH031"] >>

\* the labels drawn so far, on the finished pages and on the current one
PlacedLabels ==
    UNION { Elements(canvas.pages[i]) : i \in 1..Len(canvas.pages) }
    \cup Elements(canvas.page)

\* the label a placed label was drawn from
LabelOf(placed) == request.chemicals[placed.chemical].ghs_data

\* how many draw operations of a block a placed label has
OpsOfBlock(placed, block) ==
    Cardinality({ i \in 1..Len(placed.ops) : placed.ops[i].block = block })

\* C19: every label drawn by bulk_print_pdf has its supplier-info footer drawn
\* exactly once, whatever the number of statements and however many were
\* omitted for lack of space.
C19_FooterDrawnOnce ==
    \A placed \in PlacedLabels : OpsOfBlock(placed, "footer") = 1

C19_Witness ==
    \E placed \in PlacedLabels :
        /\ OpsOfBlock(placed, "hazard") < Len(AllHazards(LabelOf(placed)))
        /\ OpsOfBlock(placed, "precaution") = 0
        /\ Len(LabelOf(placed).precautionary_statements) > 0
        /\ OpsOfBlock(placed, "footer") = 1

\* C20: if a hazard (or supplemental hazard) statement of a drawn label was
\* omitted because the cursor crossed the bottom boundary, no precautionary
\* statement is drawn on that label.
C20_NoPrecautionWhenHazardOmitted ==
    \A placed \in PlacedLabels :
        OpsOfBlock(placed, "hazard") < Len(AllHazards(LabelOf(placed)))
            => OpsOfBlock(placed, "precaution") = 0

\* the continuation lines the first drawn statements of a list wrap to
RECURSIVE ContinuationLinesOf(_, _, _)
ContinuationLinesOf(descriptions, drawn, chars_per_line) ==
    IF drawn = 0 \/ descriptions = << >> THEN 0
    ELSE (IF WrappedLines(Head(descriptions), chars_per_line) > 1
          THEN WrappedLines(Head(descriptions), chars_per_line) - 1 ELSE 0)
         + ContinuationLinesOf(Tail(descriptions), drawn - 1, chars_per_line)

HazardDescriptions(label) ==
    [i \in 1..Len(AllHazards(label)) |-> HazardDescription(AllHazards(label)[i])]

PrecautionDescriptions(label) ==
    [i \in 1..Len(ordered_stmts(label.precautionary_statements)) |->
        PrecautionDescription(ordered_stmts(label.precautionary_statements)[i])]

\* C21: every hazard or precautionary statement whose first line is drawn is
\* drawn completely: all of its wrapped continuation lines are drawn, none is
\* cut off at the bottom boundary.
C21_DrawnStatementsAreComplete ==
    \A placed \in PlacedLabels :
        /\ OpsOfBlock(placed, "hazard_line") =
              ContinuationLinesOf(HazardDescriptions(LabelOf(placed)),
                                  OpsOfBlock(placed, "hazard"), request.chars_per_line)
        /\ OpsOfBlock(placed, "precaution_line") =
              ContinuationLinesOf(PrecautionDescriptions(LabelOf(placed)),
                                  OpsOfBlock(placed, "precaution"), request.chars_per_line)

\* the pages of the document so far: those closed by showPage(), then the one
\* being drawn on
PagesSoFar ==
    IF canvas.saved THEN canvas.pages ELSE Append(canvas.pages, canvas.page)

\* the ids before position n for which a label was rendered
RenderedBefore(n) ==
    { i \in 1..(n - 1) : request.chemicals[i].kind = "label" }

\* C22: the k-th rendered label (counting from 0) is drawn on page
\* floor(k / labels_per_page) in cell k mod labels_per_page, row by row; ids
\* that were skipped are not counted; so no page holds more than
\* labels_per_page labels and no two labels of a page share a cell.
C22_RenderedLabelInItsCell ==
    LET config == LayoutConfig(request.label_size) IN
    /\ canvas.label_index = Cardinality(RenderedBefore(canvas.next))
    /\ \A i \in 1..Len(PagesSoFar) :
           /\ Len(PagesSoFar[i]) <= config.labels_per_page
           /\ \A j \in 1..Len(PagesSoFar[i]) :
                  LET placed == PagesSoFar[i][j]
                      k == Cardinality(RenderedBefore(placed.chemical)) IN
                  /\ request.chemicals[placed.chemical].kind = "label"
                  /\ i - 1 = k \div config.labels_per_page
                  /\ j - 1 = k % config.labels_per_page
                  /\ placed.row = (k % config.labels_per_page) \div config.cols
                  /\ placed.col = (k % config.labels_per_page) % config.cols
                  /\ placed.row < config.rows
                  /\ \A j2 \in 1..Len(PagesSoFar[i]) :
                         j2 # j =>
                             << PagesSoFar[i][j2].row, PagesSoFar[i][j2].col >>
                                 # << placed.row, placed.col >>

\* a saved document of four labels per page whose fifth rendered label, drawn
\* after a skipped id, opens the second page
C22_Witness ==
    /\ canvas.saved
    /\ LayoutConfig(request.label_size).labels_per_page = 4
    /\ Len(canvas.pages) >= 2
    /\ \E placed \in Elements(canvas.pages[2]) :
           /\ placed.label_index = 4
           /\ placed.chemical > 5
           /\ placed.row = 0 /\ placed.col = 0

\* ceil(a / b) for naturals
CeilDiv(a, b) == (a + b - 1) \div b

\* C30: the saved document has max(1, ceil(r / labels_per_page)) pages, r being
\* the number of rendered labels, and when a label was rendered none of its
\* pages is empty, also when the ids after the last rendered label were all
\* skipped.
C30_PageCountMatchesRenderedLabels ==
    canvas.saved =>
        LET r == canvas.label_index
            pages == CeilDiv(r, LayoutConfig(request.label_size).labels_per_page) IN
        /\ Len(canvas.pages) = IF pages < 1 THEN 1 ELSE pages
        /\ r >= 1 => \A i \in 1..Len(canvas.pages) : canvas.pages[i] # << >>

\* how often a statement occurs in a sequence
Occurrences(seq, s) == Cardinality({ i \in 1..Len(seq) : seq[i] = s })

\* the place of a statement's group in the layout order
GroupRank(s) ==
    IF StartsWith(s, "P2") /\ Contains(s, "P280") THEN 0
    ELSE IF StartsWith(s, "P2") THEN 1
    ELSE IF StartsWith(s, "P3") THEN 2
    ELSE IF StartsWith(s, "P4") THEN 3
    ELSE IF StartsWith(s, "P5") THEN 4
    ELSE 5

\* the statements of one group, in the order of the sequence
OfGroup(seq, rank) == SelectSeq(seq, LAMBDA s : GroupRank(s) = rank)

\* C29: for every label drawn, the laid-out precautionary statements are a
\* permutation of the label's precautionary statements (each one exactly as
\* often as supplied, none left out), in the order P280 prevention, other
\* prevention, response, storage, disposal, with the input order kept inside
\* each group.
C29_OrderedStatementsArePermutation ==
    \A placed \in PlacedLabels :
        LET p_stmts == LabelOf(placed).precautionary_statements
            ordered == ordered_stmts(p_stmts) IN
        /\ Len(ordered) = Len(p_stmts)
        /\ \A s \in Elements(p_stmts) : Occurrences(ordered, s) = Occurrences(p_stmts, s)
        /\ \A i \in 1..Len(ordered) : \A j \in i..Len(ordered) :
               GroupRank(ordered[i]) <= GroupRank(ordered[j])
        /\ \A rank \in 0..5 : OfGroup(ordered, rank) = OfGroup(p_stmts, rank)

\* the scale claimed for a label: the raw factor clamped to [1.2, 2.4] for a
\* full-page format and to [0.8, 1.6] otherwise
ClaimedScale ==
    LET r == RawScale(request.label_width, request.label_height) IN
    IF request.label_size \in FullPageSizes
    THEN (IF r < 1200 THEN 1200 ELSE IF r > 2400 THEN 2400 ELSE r)
    ELSE (IF r < 800 THEN 800 ELSE IF r > 1600 THEN 1600 ELSE r)

\* C27: the scale of a label is the raw factor clamped to [0.8, 1.6] for a
\* multi-up format and to [1.2, 2.4] for a full-page format, for every raw
\* factor.
C27_ScaleClampedPerFormat ==
    ret.op \in { "scale", "pictograms" } => ret.scale = ClaimedScale

\* C28: for 1 to 4 pictograms and every label size the pictogram group is not
\* higher than the available height, so the centring offset is not negative.
C28_PictogramsFitVertically ==
    ret.op = "pictograms" =>
        /\ ret.total_height <= ret.available_height
        /\ ret.start_offset >= 0

\* more than 5 years from the date to the clock's date, the elapsed time
\* counted in days and a year as 365.25 days
MoreThanFiveYearsBefore(date, now) ==
    100 * (Ordinal(now) - Ordinal(date)) > 5 * 36525

IsBareYear(sds_date) == sds_date # None /\ IsYearToken(sds_date)

\* C24: for a bare four-digit year, whichever it is, the age is taken from
\* 15 June of that year: a bare year more than 5 years before the current time
\* is reported as outdated, with a warning.
C24_BareYearCountsFromMidYear ==
    ret.op = "validate_sds_age" /\ IsBareYear(request.sds_date) =>
        LET mid_year == [year |-> StrToNat(request.sds_date), month |-> 6, day |-> 15] IN
        /\ ret.result.is_outdated <=> MoreThanFiveYearsBefore(mid_year, request.now)
        /\ ret.result.is_outdated => ret.result.warning # None

\* the user has a subscription whose status is past_due
HasPastDueSubscription ==
    \E i \in 1..Len(store.subscriptions) : store.subscriptions[i].status = "past_due"

\* C26: POST /subscription/fix-past-due can succeed for a user whose
\* subscription is past_due: when that is the user's only subscription and the
\* API key is configured, get_user_subscription returns it, the status check
\* passes and the cancel request is sent to the billing provider.
C26_PastDueSubscriptionIsCancelled ==
    /\ ret.op = "fix_past_due_subscription"
    /\ HasPastDueSubscription
    /\ Len(store.subscriptions) = 1
    /\ request.api_key
    => ret.cancel_sent

\* in no reachable state has the cancel request been sent, whatever the rows
FixPastDueNeverSendsCancel ==
    ret.op = "fix_past_due_subscription" => ~ret.cancel_sent /\ ret.status_code \in { 400, 404 }

\* the user has no subscription
FreeTier == get_user_subscription(store.subscriptions) = NoSubscription

\* C25: over any sequence of POST /parse-sds and POST /parse-sds/validated
\* calls of a free-tier user within one month, concurrent ones included, at
\* most 5 uploads are processed, whether or not save_to_vault was set.
C25_FreeTierProcessesAtMostFive ==
    ret.op = "uploads" /\ FreeTier => ret.processed <= 5

====
